---- MODULE Spec2Model ----
(***************************************************************************)
(* Number guessing game played by a genetic algorithm.                     *)
(*                                                                         *)
(* The model covers genetic_algorithm/individual.py, population.py,        *)
(* fitness.py, crossover.py, mutation.py, the run loop of                  *)
(* game/game_manager.py and the generation step main.py patches into it.   *)
(*                                                                         *)
(* Python floats are modelled as exact rationals [n, d] in lowest terms    *)
(* (d > 0); the value [n |-> 0, d |-> 0] stands for a raised               *)
(* ZeroDivisionError and propagates through every arithmetic operator.     *)
(* The random source is modelled by nondeterministic choice: RandInt for   *)
(* random.randint and UnitDraws for random.random.                         *)
(***************************************************************************)
EXTENDS Integers, Sequences, FiniteSets, TLC

VARIABLES
    mode,                 \* which driver runs: api, game, lab, fitness, ...
    config,               \* the validated configuration handed to Population
    secret_number,        \* the target
    individuals,          \* Population.individuals
    best_individual,      \* Population.best_individual ({} is None)
    generation_stats,     \* Population.generation_stats
    phase,                \* last Population call: Uninitialized, Evaluated, Bred
    pc,                   \* position of main / GameManager.run_game
    current_generation,   \* GameManager.current_generation
    gm_best_fitness,      \* GameManager.best_fitness
    solution_found,       \* run_game's local solution_found
    generation_history,   \* GameManager.generation_history
    tracker,              \* records handed to StatisticsTracker.record_generation
    max_generations_shown,\* Display.show_max_generations_reached was called
    success,              \* StatisticsTracker.end_tracking(success=...) ({} before)
    lab,                  \* free-standing individuals the operators are applied to
    fit,                  \* inputs and result of the last fitness function call
    sel,                  \* inputs and result of the last selection call
    twin                  \* two runs started from the same seed

vars == <<mode, config, secret_number, individuals, best_individual,
          generation_stats, phase, pc, current_generation, gm_best_fitness,
          solution_found, generation_history, tracker, max_generations_shown,
          success, lab, fit, sel, twin>>

popVars == <<individuals, best_individual, generation_stats, phase>>
gameVars == <<pc, current_generation, gm_best_fitness, solution_found,
              generation_history, tracker, max_generations_shown, success>>

---------------------------------------------------------------------------
\* Bounds of the model.

\* largest MAX_NUMBER of the small configurations
MaxNumber == 4
\* largest MAX_GENERATIONS
MaxGens == 3
\* MAX_NUMBER of the wide configuration (SpecWide)
WideMax == 20000
\* random.randint(lo, hi) is enumerated in full when hi - lo <= DrawSpan
DrawSpan == 16
\* largest seed of the seeded runs (SpecTwin)
MaxSeed == 3
\* largest population a selection is made from (SpecSelection)
SelSize == 3

---------------------------------------------------------------------------
\* Rationals standing for Python floats.

Abs(x) == IF x < 0 THEN -x ELSE x
Min2(a, b) == IF a < b THEN a ELSE b
Max2(a, b) == IF a > b THEN a ELSE b

RECURSIVE GCD(_, _)
GCD(a, b) == IF b = 0 THEN a ELSE GCD(b, a % b)

Rat(n, d) ==
    LET g == GCD(Abs(n), Abs(d))
        s == IF d < 0 THEN -1 ELSE 1
    IN  [n |-> s * (n \div g), d |-> s * (d \div g)]

F(i) == [n |-> i, d |-> 1]
ZeroDivisionError == [n |-> 0, d |-> 0]
Raised(a) == a.d = 0

FAdd(a, b) == IF Raised(a) \/ Raised(b) THEN ZeroDivisionError
              ELSE Rat(a.n * b.d + b.n * a.d, a.d * b.d)
FSub(a, b) == IF Raised(a) \/ Raised(b) THEN ZeroDivisionError
              ELSE Rat(a.n * b.d - b.n * a.d, a.d * b.d)
FMul(a, b) == IF Raised(a) \/ Raised(b) THEN ZeroDivisionError
              ELSE Rat(a.n * b.n, a.d * b.d)
FDiv(a, b) == IF Raised(a) \/ Raised(b) \/ b.n = 0 THEN ZeroDivisionError
              ELSE Rat(a.n * b.d, a.d * b.n)
FLt(a, b) == a.n * b.d < b.n * a.d
FLe(a, b) == a.n * b.d <= b.n * a.d
FEq(a, b) == a.n * b.d = b.n * a.d
FMax(a, b) == IF FLt(a, b) THEN b ELSE a
FMin(a, b) == IF FLt(b, a) THEN b ELSE a

RECURSIVE FSum(_)
FSum(s) == IF s = << >> THEN F(0) ELSE FAdd(Head(s), FSum(Tail(s)))

\* Optional values: {} is None, {x} is x.
None == {}
Some(x) == {x}
The(s) == CHOOSE x \in s : TRUE

---------------------------------------------------------------------------
\* The random source.

\* random.randint(lo, hi).  Ranges wider than DrawSpan are sampled at their
\* ends, next to the lower end and next to zero; every value returned is one
\* randint can return.
RandInt(lo, hi) ==
    IF hi - lo <= DrawSpan THEN lo .. hi
    ELSE {x \in {lo, lo + 1, hi, -1, 1} : lo <= x /\ x <= hi}

\* random.random(): draws in [0, 1), among them 0 and the rates themselves
UnitDraws == {Rat(0, 1), Rat(1, 2), Rat(9, 10)}

---------------------------------------------------------------------------
\* genetic_algorithm/individual.py

\* faulty variant: the clamp without its upper bound
Clamp_lower_only(v, lo, hi) == Max2(lo, v)

Clamp(v, lo, hi) == Max2(lo, Min2(v, hi))

\* Individual(value, min_value, max_value) with an explicit value
Individual(value, lo, hi) ==
    [value |-> Clamp(value, lo, hi), min_value |-> lo, max_value |-> hi,
     fitness |-> F(0)]

\* Individual(None, min_value, max_value)
Individual_random(lo, hi) ==
    {[value |-> v, min_value |-> lo, max_value |-> hi, fitness |-> F(0)] :
        v \in RandInt(lo, hi)}

\* Individual.calculate_fitness: the individual with its fitness set
calculate_fitness(ind, secret) ==
    LET distance == Abs(secret - ind.value)
        range_size == ind.max_value - ind.min_value + 1
    IN  IF distance = 0 THEN [ind EXCEPT !.fitness = F(100)]
        ELSE [ind EXCEPT !.fitness =
                 FMul(FDiv(FMax(F(0), F(range_size - distance)), F(range_size)),
                      F(100))]

\* faulty variant: a clone that does not copy the fitness
clone_without_fitness(ind) == Individual(ind.value, ind.min_value, ind.max_value)

\* Individual.clone
clone(ind) == [Individual(ind.value, ind.min_value, ind.max_value)
                  EXCEPT !.fitness = ind.fitness]

\* Individual.crossover: the pairs <<child1, child2>> it can return
Individual_crossover(self, partner) ==
    LET average == (self.value + partner.value) \div 2
        difference == Abs(self.value - partner.value)
        lo == self.min_value
        hi == self.max_value
    IN  IF difference = 0
        THEN {<<Individual(Clamp(self.value + r1, lo, hi), lo, hi),
                Individual(Clamp(self.value - r2, lo, hi), lo, hi)>> :
                    r1 \in RandInt(1, 3), r2 \in RandInt(1, 3)}
        ELSE UNION {
               LET child1_value == Clamp(average + r, lo, hi)
               IN  {<<Individual(child1_value, lo, hi),
                      Individual(Clamp(average + offset, lo, hi), lo, hi)>> :
                        offset \in {o \in RandInt(-difference, difference) :
                                       average + o # child1_value}}
               : r \in RandInt(-difference, difference)}

\* Individual.mutate with an explicit mutation_range >= 1: the individuals it
\* can leave behind.  The draw u skips the mutation when u > probability.
Individual_mutate(ind, mutation_range, mutation_probability) ==
    UNION {
      IF FLt(mutation_probability, u) THEN {ind}
      ELSE {[ind EXCEPT !.value =
                Clamp(ind.value + change, ind.min_value, ind.max_value)] :
               change \in RandInt(-mutation_range, mutation_range) \ {0}}
      : u \in UnitDraws}

---------------------------------------------------------------------------
\* genetic_algorithm/population.py

min_value == config.MIN_NUMBER
max_value == config.MAX_NUMBER
population_size == config.POPULATION_SIZE
crossover_rate == config.CROSSOVER_RATE
mutation_rate == config.MUTATION_RATE
elitism_count == config.ELITISM_COUNT
mutation_range == Max2(1, (max_value - min_value) \div 10)

\* faulty variant: the sort without reverse=True
RECURSIVE InsertByFitness_ascending(_, _)
InsertByFitness_ascending(sorted, x) ==
    IF sorted = << >> THEN <<x>>
    ELSE IF FLt(x.fitness, Head(sorted).fitness) THEN <<x>> \o sorted
    ELSE <<Head(sorted)>> \o InsertByFitness_ascending(Tail(sorted), x)

\* self.individuals.sort(key=fitness, reverse=True): a stable sort
RECURSIVE InsertByFitness(_, _)
InsertByFitness(sorted, x) ==
    IF sorted = << >> THEN <<x>>
    ELSE IF FLt(Head(sorted).fitness, x.fitness) THEN <<x>> \o sorted
    ELSE <<Head(sorted)>> \o InsertByFitness(Tail(sorted), x)

RECURSIVE SortByFitness(_, _)
SortByFitness(sorted, rest) ==
    IF rest = << >> THEN sorted
    ELSE SortByFitness(InsertByFitness(sorted, Head(rest)), Tail(rest))

\* Population._calculate_statistics (the standard deviation, an irrational
\* number, is left out)
calculate_statistics(inds, best) ==
    [avg_fitness |-> FDiv(FSum([i \in 1 .. Len(inds) |-> inds[i].fitness]),
                          F(Len(inds))),
     best_fitness |-> best.fitness,
     best_guess |-> Some(best.value),
     unique_values |-> Cardinality({inds[i].value : i \in 1 .. Len(inds)})]

\* Population.evaluate_fitness: the new individuals, best_individual and
\* generation_stats
evaluate_fitness(inds, secret) ==
    LET scored == [i \in 1 .. Len(inds) |-> calculate_fitness(inds[i], secret)]
        sorted == SortByFitness(<< >>, scored)
        best == clone(sorted[1])
    IN  [individuals |-> sorted, best_individual |-> Some(best),
         generation_stats |-> calculate_statistics(sorted, best)]

\* Population._tournament_selection: the individuals it can return.  The
\* tournament is a random sample of min(size, n) members; max() returns the
\* first of the fittest in sample order, so any fittest member of the sample.
_tournament_selection(inds, tournament_size) ==
    LET n == Len(inds)
        k == Min2(tournament_size, n)
    IN  {inds[i] : i \in {j \in 1 .. n :
            \E S \in SUBSET (1 .. n) :
                /\ Cardinality(S) = k
                /\ j \in S
                /\ \A m \in S : FLe(inds[m].fitness, inds[j].fitness)}}

\* The re-selection loop of create_next_generation: the pairs
\* <<parent2, attempts>> it can end with, from the candidates S for parent2
\* after `attempts` re-selections.
RECURSIVE ReselectParent2(_, _, _, _)
ReselectParent2(T, parent1, S, attempts) ==
    LET again == {q \in S : parent1.value = q.value /\ attempts < 5}
    IN  {<<q, attempts>> : q \in S \ again}
        \cup (IF again = {} THEN {}
              ELSE ReselectParent2(T, parent1, T, attempts + 1))

\* One pass of the breeding loop: the pairs <<child1, child2>> it can append
BreedPair(inds) ==
    LET T == _tournament_selection(inds, 3)
        parents == UNION {{<<p1, pa[1]>> : pa \in ReselectParent2(T, p1, T, 0)} :
                             p1 \in T}
        crossed(p) ==
            UNION {IF FLt(u, crossover_rate)
                   THEN Individual_crossover(p[1], p[2])
                   ELSE {<<clone(p[1]), clone(p[2])>>} : u \in UnitDraws}
    IN  UNION {UNION {
            {<<m1, m2>> :
                m1 \in Individual_mutate(c[1], mutation_range, mutation_rate),
                m2 \in Individual_mutate(c[2], mutation_range, mutation_rate)}
            : c \in crossed(p)} : p \in parents}

\* faulty variant: both children appended whatever room is left
RECURSIVE FillPopulation_both_children(_, _)
FillPopulation_both_children(new_population, pairs) ==
    IF Len(new_population) >= population_size THEN {new_population}
    ELSE UNION {
           FillPopulation_both_children(new_population \o <<c[1], c[2]>>, pairs) :
               c \in pairs}

\* the breeding loop: append the two children of a pair, or only the first
\* when one slot is left, until the population is full
RECURSIVE FillPopulation(_, _)
FillPopulation(new_population, pairs) ==
    IF Len(new_population) >= population_size THEN {new_population}
    ELSE UNION {
           FillPopulation(
             IF Len(new_population) + 1 < population_size
             THEN new_population \o <<c[1], c[2]>>
             ELSE new_population \o <<c[1]>>, pairs) : c \in pairs}

\* faulty variant: the elite copies taken from the tail of the sorted list
Elites_from_tail(inds) ==
    IF elitism_count > 0
    THEN [i \in 1 .. Min2(elitism_count, Len(inds)) |->
             clone(inds[Len(inds) + 1 - i])]
    ELSE << >>

\* the elite copies create_next_generation starts the new population with
Elites(inds) ==
    IF elitism_count > 0
    THEN [i \in 1 .. Min2(elitism_count, Len(inds)) |-> clone(inds[i])]
    ELSE << >>

\* Population.create_next_generation: the populations it can produce
create_next_generation(inds) == FillPopulation(Elites(inds), BreedPair(inds))

\* Population.get_value_diversity, as the pair unique_values / population_size
get_value_diversity(stats) ==
    IF population_size > 0 THEN Rat(stats.unique_values, population_size)
    ELSE F(0)

---------------------------------------------------------------------------
\* genetic_algorithm/fitness.py

\* 2.718 ** x for a rational x <= 0, in fixed point with four decimals:
\* 2.718 ** (-k) by k divisions, times exp(-y) for the fractional part, with
\* y = frac * ln 2.718 and ten terms of the series.  The result is within
\* 0.002 of the real power.
RECURSIVE PowInt(_, _)
PowInt(q, k) == IF k = 0 \/ q = 0 THEN q ELSE PowInt((q * 1000) \div 2718, k - 1)

RECURSIVE ExpTerms(_, _, _)
ExpTerms(term, y, j) ==
    IF j > 10 \/ term = 0 THEN 0
    ELSE (IF j % 2 = 0 THEN term ELSE -term)
         + ExpTerms((term * y) \div (10000 * (j + 1)), y, j + 1)

Pow2718(x) ==
    LET a == -x.n
        b == x.d
        k == a \div b
        y == ((a % b) * 9999) \div b
        frac == ExpTerms(10000, y, 0)
    IN  Rat((PowInt(10000, k) * frac) \div 10000, 10000)

\* faulty variant: the range size taken as max - min
linear_distance_short_range(guess, secret, lo, hi) ==
    LET distance == Abs(secret - guess)
        range_size == hi - lo
        fitness == FMax(F(0), F(range_size - distance))
    IN  IF distance = 0 THEN F(100)
        ELSE FMul(FDiv(fitness, F(range_size)), F(100))

\* FitnessCalculator.linear_distance
linear_distance(guess, secret, lo, hi) ==
    LET distance == Abs(secret - guess)
        range_size == hi - lo + 1
        fitness == FMax(F(0), F(range_size - distance))
    IN  IF distance = 0 THEN F(100)
        ELSE FMul(FDiv(fitness, F(range_size)), F(100))

\* faulty variant: the inverse distance normalised onto 0..100
inverse_distance_onto_100(guess, secret, lo, hi) ==
    LET distance == Abs(secret - guess)
        range_size == hi - lo + 1
        inverse == FDiv(F(1), F(distance))
        max_inverse == F(1)
        min_inverse == FDiv(F(1), F(range_size))
    IN  IF distance = 0 THEN F(100)
        ELSE FMul(FDiv(FSub(inverse, min_inverse),
                       FSub(max_inverse, min_inverse)), F(100))

\* FitnessCalculator.inverse_distance
inverse_distance(guess, secret, lo, hi) ==
    LET distance == Abs(secret - guess)
        range_size == hi - lo + 1
        inverse == FDiv(F(1), F(distance))
        max_inverse == F(1)
        min_inverse == FDiv(F(1), F(range_size))
    IN  IF distance = 0 THEN F(100)
        ELSE FMul(FDiv(FSub(inverse, min_inverse),
                       FSub(max_inverse, min_inverse)), F(99))

\* FitnessCalculator.exponential_decay
exponential_decay(guess, secret, lo, hi) ==
    LET distance == Abs(secret - guess)
        range_size == hi - lo + 1
        scale_factor == FDiv(F(5), F(range_size))
    IN  IF distance = 0 THEN F(100)
        ELSE FMul(F(99), Pow2718(FMul(FSub(F(0), scale_factor), F(distance))))

\* FitnessCalculator.combined_fitness
combined_fitness(guess, secret, lo, hi) ==
    LET distance == Abs(secret - guess)
        range_size == hi - lo + 1
        linear_fitness == FDiv(FMax(F(0), F(range_size - distance)), F(range_size))
        scale_factor == FDiv(F(5), F(range_size))
        exp_fitness == Pow2718(FMul(FSub(F(0), scale_factor), F(distance)))
    IN  IF distance = 0 THEN F(100)
        ELSE FMul(FAdd(FMul(Rat(6, 10), linear_fitness),
                       FMul(Rat(4, 10), exp_fitness)), F(99))

\* FitnessCalculator.hot_cold_guidance; previous_guess is None or Some(guess)
hot_cold_guidance(guess, secret, lo, hi, previous_guess) ==
    LET distance == Abs(secret - guess)
        range_size == hi - lo + 1
        basic_fitness ==
            FMul(FDiv(FMax(F(0), F(range_size - distance)), F(range_size)), F(90))
        prev_distance == Abs(secret - The(previous_guess))
        direction_bonus ==
            IF previous_guess = None THEN F(0)
            ELSE IF distance < prev_distance THEN F(10)
            ELSE IF distance > prev_distance THEN F(-5)
            ELSE F(0)
    IN  IF distance = 0 THEN F(100)
        ELSE FMax(F(0), FMin(F(99), FAdd(basic_fitness, direction_bonus)))

\* the fitness functions by name; "calculate_fitness" is the Individual's own
FitnessNames == {"linear", "inverse", "exponential", "combined", "hot_cold",
                 "calculate_fitness"}

FitnessCall(fn, guess, secret, lo, hi, previous_guess) ==
    CASE fn = "linear" -> linear_distance(guess, secret, lo, hi)
      [] fn = "inverse" -> inverse_distance(guess, secret, lo, hi)
      [] fn = "exponential" -> exponential_decay(guess, secret, lo, hi)
      [] fn = "combined" -> combined_fitness(guess, secret, lo, hi)
      [] fn = "hot_cold" ->
            hot_cold_guidance(guess, secret, lo, hi, previous_guess)
      [] fn = "calculate_fitness" ->
            calculate_fitness(Individual(guess, lo, hi), secret).fitness

---------------------------------------------------------------------------
\* genetic_algorithm/crossover.py
\* A crossover returns [raised, children]: raised is "none" and children the
\* pair of new individuals, or raised names the exception and children is << >>.

Returned(c1, c2) == [raised |-> "none", children |-> <<c1, c2>>]
Raises(exception) == [raised |-> exception, children |-> << >>]

\* int(x) of a float: truncation towards zero
IntTrunc(q) == IF q.n >= 0 THEN q.n \div q.d ELSE -((-q.n) \div q.d)

\* len(bin(v)) - 2
RECURSIVE BitLength(_)
BitLength(v) == IF v <= 1 THEN 1 ELSE 1 + BitLength(v \div 2)

RECURSIVE Pow2(_)
Pow2(k) == IF k = 0 THEN 1 ELSE 2 * Pow2(k - 1)

\* format(v, '0{width}b'): the bits of v, most significant first, padded
\* with zeros to at least `width`
ToBits(v, width) ==
    LET w == Max2(width, BitLength(v))
    IN  [i \in 1 .. w |-> (v \div Pow2(w - i)) % 2]

\* int(bits, 2)
RECURSIVE FromBits(_)
FromBits(bits) ==
    IF bits = << >> THEN 0
    ELSE Head(bits) * Pow2(Len(bits) - 1) + FromBits(Tail(bits))

\* the weights random.random() is drawn from in arithmetic_crossover: with
\* d = |v1 - v2| the children change only at multiples of 1/d, so the
\* multiples of 1/(2d) below 1 give every outcome
Weights(d) == IF d = 0 THEN {Rat(0, 1), Rat(1, 2)}
              ELSE {Rat(k, 2 * d) : k \in 0 .. (2 * d - 1)}

\* Crossover.arithmetic_crossover
arithmetic_crossover(parent1, parent2) ==
    LET lo == parent1.min_value
        hi == parent1.max_value
        child(w, v1, v2) ==
            IntTrunc(FAdd(FMul(w, F(v1)), FMul(FSub(F(1), w), F(v2))))
    IN  {Returned(
           Individual(Clamp(child(weight, parent1.value, parent2.value), lo, hi),
                      lo, hi),
           Individual(Clamp(child(weight, parent2.value, parent1.value), lo, hi),
                      lo, hi)) :
           weight \in Weights(Abs(parent1.value - parent2.value))}

\* faulty variant: identical parents get no variation of their own
average_crossover_unvaried(parent1, parent2) ==
    LET lo == parent1.min_value
        hi == parent1.max_value
        average == (parent1.value + parent2.value) \div 2
        difference == Abs(parent1.value - parent2.value)
    IN  {Returned(Individual(Clamp(average + variation1, lo, hi), lo, hi),
                  Individual(Clamp(average + variation2, lo, hi), lo, hi)) :
            variation1 \in RandInt(-difference, difference),
            variation2 \in RandInt(-difference, difference)}

\* Crossover.average_crossover
average_crossover(parent1, parent2) ==
    LET lo == parent1.min_value
        hi == parent1.max_value
        average == (parent1.value + parent2.value) \div 2
        difference == Abs(parent1.value - parent2.value)
    IN  IF difference = 0
        THEN {Returned(Individual(Clamp(average + variation1, lo, hi), lo, hi),
                       Individual(Clamp(average - variation2, lo, hi), lo, hi)) :
                 variation1 \in RandInt(1, 3), variation2 \in RandInt(1, 3)}
        ELSE {Returned(Individual(Clamp(average + variation1, lo, hi), lo, hi),
                       Individual(Clamp(average + variation2, lo, hi), lo, hi)) :
                 variation1 \in RandInt(-difference, difference),
                 variation2 \in RandInt(-difference, difference)}

\* Crossover.binary_crossover; random.randint(1, max_bits - 1) raises
\* ValueError on an empty range
binary_crossover(parent1, parent2) ==
    LET lo == parent1.min_value
        hi == parent1.max_value
        max_bits == BitLength(hi)
        parent1_bits == ToBits(parent1.value, max_bits)
        parent2_bits == ToBits(parent2.value, max_bits)
        splice(a, b, point) ==
            FromBits(SubSeq(a, 1, point) \o SubSeq(b, point + 1, Len(b)))
    IN  IF max_bits - 1 < 1 THEN {Raises("ValueError")}
        ELSE {Returned(
                Individual(Clamp(splice(parent1_bits, parent2_bits,
                                        crossover_point), lo, hi), lo, hi),
                Individual(Clamp(splice(parent2_bits, parent1_bits,
                                        crossover_point), lo, hi), lo, hi)) :
                crossover_point \in RandInt(1, max_bits - 1)}

\* Crossover.binary_two_point_crossover; random.randint(1, max_bits - 2)
\* raises ValueError on an empty range
binary_two_point_crossover(parent1, parent2) ==
    LET lo == parent1.min_value
        hi == parent1.max_value
        max_bits == BitLength(hi)
        parent1_bits == ToBits(parent1.value, max_bits)
        parent2_bits == ToBits(parent2.value, max_bits)
        splice(a, b, point1, point2) ==
            FromBits(SubSeq(a, 1, point1) \o SubSeq(b, point1 + 1, point2)
                     \o SubSeq(a, point2 + 1, Len(a)))
    IN  IF max_bits - 2 < 1 THEN {Raises("ValueError")}
        ELSE UNION {
               {Returned(
                  Individual(Clamp(splice(parent1_bits, parent2_bits,
                                          point1, point2), lo, hi), lo, hi),
                  Individual(Clamp(splice(parent2_bits, parent1_bits,
                                          point1, point2), lo, hi), lo, hi)) :
                  point2 \in RandInt(point1 + 1, max_bits - 1)} :
               point1 \in RandInt(1, max_bits - 2)}

\* faulty variant: the two comparisons with <= in place of <
adaptive_crossover_inclusive(parent1, parent2) ==
    LET difference == Abs(parent1.value - parent2.value)
        range_size == parent1.max_value - parent1.min_value
    IN  IF FLe(F(difference), FMul(F(range_size), Rat(5, 100)))
        THEN binary_crossover(parent1, parent2)
        ELSE IF FLe(F(difference), FMul(F(range_size), Rat(20, 100)))
        THEN binary_two_point_crossover(parent1, parent2)
        ELSE average_crossover(parent1, parent2)

\* Crossover.adaptive_crossover
adaptive_crossover(parent1, parent2) ==
    LET difference == Abs(parent1.value - parent2.value)
        range_size == parent1.max_value - parent1.min_value
    IN  IF FLt(F(difference), FMul(F(range_size), Rat(5, 100)))
        THEN binary_crossover(parent1, parent2)
        ELSE IF FLt(F(difference), FMul(F(range_size), Rat(20, 100)))
        THEN binary_two_point_crossover(parent1, parent2)
        ELSE average_crossover(parent1, parent2)

CrossoverNames == {"Individual.crossover", "arithmetic", "average", "binary",
                   "binary_two_point", "adaptive"}

CrossoverCall(op, parent1, parent2) ==
    CASE op = "Individual.crossover" ->
            {Returned(c[1], c[2]) : c \in Individual_crossover(parent1, parent2)}
      [] op = "arithmetic" -> arithmetic_crossover(parent1, parent2)
      [] op = "average" -> average_crossover(parent1, parent2)
      [] op = "binary" -> binary_crossover(parent1, parent2)
      [] op = "binary_two_point" -> binary_two_point_crossover(parent1, parent2)
      [] op = "adaptive" -> adaptive_crossover(parent1, parent2)

---------------------------------------------------------------------------
\* genetic_algorithm/mutation.py
\* A mutation leaves [raised, individual]: raised is "none" and individual
\* the individual after the call; "hang" is a call that never returns (its
\* resample loop cannot draw a non-zero change).

Left(ind) == [raised |-> "none", individual |-> ind]
Hangs(ind) == [raised |-> "hang", individual |-> ind]

WithValue(ind, v) ==
    [ind EXCEPT !.value = Clamp(v, ind.min_value, ind.max_value)]

\* faulty variant: a change of zero is kept
random_mutation_zero_kept(ind, given_range, mutation_probability) ==
    LET value_range == ind.max_value - ind.min_value
        range == IF given_range = None THEN Max2(1, value_range \div 10)
                 ELSE The(given_range)
    IN  UNION {
          IF FLt(mutation_probability, u) THEN {Left(ind)}
          ELSE {Left(WithValue(ind, ind.value + change)) :
                   change \in RandInt(-range, range)}
          : u \in UnitDraws}

\* Mutation.random_mutation; given_range is mutation_range, None or Some(range)
random_mutation(ind, given_range, mutation_probability) ==
    LET value_range == ind.max_value - ind.min_value
        range == IF given_range = None THEN Max2(1, value_range \div 10)
                 ELSE The(given_range)
        changes == RandInt(-range, range) \ {0}
    IN  UNION {
          IF FLt(mutation_probability, u) THEN {Left(ind)}
          ELSE IF changes = {} THEN {Hangs(ind)}
          ELSE {Left(WithValue(ind, ind.value + change)) : change \in changes}
          : u \in UnitDraws}

\* Mutation.bit_flip_mutation: each bit is flipped when its own draw is
\* below the probability
bit_flip_mutation(ind, mutation_probability) ==
    LET max_bits == BitLength(ind.max_value)
        value_bits == ToBits(ind.value, max_bits)
        may_flip == \E u \in UnitDraws : FLt(u, mutation_probability)
        may_keep == \E u \in UnitDraws : ~FLt(u, mutation_probability)
        flips == {M \in SUBSET (1 .. Len(value_bits)) :
                     /\ M # {} => may_flip
                     /\ M # 1 .. Len(value_bits) => may_keep}
    IN  {Left(WithValue(ind,
            FromBits([i \in 1 .. Len(value_bits) |->
                        IF i \in M THEN 1 - value_bits[i] ELSE value_bits[i]]))) :
            M \in flips}

\* Mutation.boundary_mutation
boundary_mutation(ind, mutation_probability) ==
    UNION {
      IF FLt(mutation_probability, u) THEN {Left(ind)}
      ELSE {Left([ind EXCEPT !.value =
                     IF FLt(u2, Rat(1, 2)) THEN ind.min_value
                     ELSE ind.max_value]) : u2 \in UnitDraws}
      : u \in UnitDraws}

\* random.gauss(0, sigma) is z * sigma with |z| <= sqrt(-2 ln 2^-53) < 8.58,
\* the largest deviate a 53-bit uniform draw gives
GaussReach == Rat(858, 100)

\* Mutation.gaussian_mutation; sigma is None or Some(sigma)
gaussian_mutation(ind, mutation_probability, sigma) ==
    LET value_range == ind.max_value - ind.min_value
        s == IF sigma = None THEN FMul(F(value_range), Rat(5, 100))
             ELSE The(sigma)
        reach == IntTrunc(FMul(s, GaussReach))
        changes == ((-reach) .. reach) \ {0}
    IN  UNION {
          IF FLt(mutation_probability, u) THEN {Left(ind)}
          ELSE IF changes = {} THEN {Hangs(ind)}
          ELSE {Left(WithValue(ind, ind.value + change)) : change \in changes}
          : u \in UnitDraws}

\* the mutation probability adaptive_mutation computes
adaptive_probability(fitness, max_fitness, generation) ==
    LET fitness_ratio == FDiv(fitness, max_fitness)
        base_probability ==
            FAdd(Rat(1, 10), FMul(FSub(F(1), fitness_ratio), Rat(4, 10)))
        generation_factor == FMin(Rat(3, 10), Rat(generation, 1000))
    IN  FMin(Rat(9, 10), FAdd(base_probability, generation_factor))

\* the mutation range adaptive_mutation computes
adaptive_range(ind, fitness, max_fitness) ==
    LET fitness_ratio == FDiv(fitness, max_fitness)
        value_range == ind.max_value - ind.min_value
        mutation_factor == FSub(F(1), FMul(fitness_ratio, fitness_ratio))
    IN  Max2(1, IntTrunc(FMul(FMul(F(value_range), Rat(5, 100)),
                              FAdd(F(1), FMul(F(3), mutation_factor)))))

\* faulty variant: the computed range is not handed on, random mutation
\* falls back on its default range
adaptive_mutation_default_range(ind, fitness, max_fitness, generation) ==
    random_mutation(ind, None,
                    adaptive_probability(fitness, max_fitness, generation))

\* Mutation.adaptive_mutation
adaptive_mutation(ind, fitness, max_fitness, generation) ==
    random_mutation(ind, Some(adaptive_range(ind, fitness, max_fitness)),
                    adaptive_probability(fitness, max_fitness, generation))

MutationNames == {"Individual.mutate", "random", "bit_flip", "boundary",
                  "gaussian", "adaptive"}

\* the mutation probabilities the operators are called with
Probabilities == {Rat(0, 1), Rat(1, 2), Rat(1, 1)}

\* a finished call together with the arguments that decide its mutation:
\* the range and the probability the random mutation is made with, and the
\* fitness and generation an adaptive mutation is given
Called(m, given_range, probability, fitness, generation) ==
    [raised |-> m.raised, individual |-> m.individual,
     mutation_range |-> given_range, probability |-> probability,
     fitness |-> fitness, generation |-> generation]

\* Population.__init__: self.mutation_range
PopulationRange(lo, hi) == Max2(1, (hi - lo) \div 10)

\* the calls of one operator: every choice of its other arguments
MutationCall(op, ind, p) ==
    CASE op = "Individual.mutate" ->
            {Called(Left(m),
                    Some(PopulationRange(ind.min_value, ind.max_value)),
                    p, F(0), 0) :
                m \in Individual_mutate(ind,
                         PopulationRange(ind.min_value, ind.max_value), p)}
      [] op = "random" ->
            UNION {{Called(m, r, p, F(0), 0) : m \in random_mutation(ind, r, p)} :
                      r \in {None, Some(1), Some(2)}}
      [] op = "bit_flip" ->
            {Called(m, None, p, F(0), 0) : m \in bit_flip_mutation(ind, p)}
      [] op = "boundary" ->
            {Called(m, None, p, F(0), 0) : m \in boundary_mutation(ind, p)}
      [] op = "gaussian" ->
            UNION {{Called(m, None, p, F(0), 0) :
                       m \in gaussian_mutation(ind, p, s)} :
                      s \in {None, Some(F(1))}}
      [] op = "adaptive" ->
            UNION {{Called(m, Some(adaptive_range(ind, f, F(100))),
                           adaptive_probability(f, F(100), g), f, g) :
                       m \in adaptive_mutation(ind, f, F(100), g)} :
                      f \in {F(0), F(50), F(100)}, g \in {0, 1000}}

---------------------------------------------------------------------------
\* Configurations

\* the keys of a configuration the model keeps; the four method keys have
\* the values of DEFAULT_CONFIG unless WithMethods sets them
Config(lo, hi, n, e, cr, mr, gens) ==
    [MIN_NUMBER |-> lo, MAX_NUMBER |-> hi, POPULATION_SIZE |-> n,
     ELITISM_COUNT |-> e, CROSSOVER_RATE |-> cr, MUTATION_RATE |-> mr,
     MAX_GENERATIONS |-> gens,
     SELECTION_METHOD |-> "tournament", CROSSOVER_METHOD |-> "adaptive",
     MUTATION_METHOD |-> "adaptive", FITNESS_METHOD |-> "linear"]

\* main.py configure_from_args: --selection, --crossover, --mutation and
\* --fitness put into the configuration
WithMethods(cfg, selection, crossover, mutation, fitness) ==
    [cfg EXCEPT !.SELECTION_METHOD = selection, !.CROSSOVER_METHOD = crossover,
                !.MUTATION_METHOD = mutation, !.FITNESS_METHOD = fitness]

\* utils/config.py DEFAULT_CONFIG, the keys Population and run_game read
DEFAULT_CONFIG == Config(1, 100, 20, 2, Rat(8, 10), Rat(1, 10), 1000)

\* the shapes <<MIN_NUMBER, MAX_NUMBER, POPULATION_SIZE>> of the populations
\* driven call by call; only the last is larger than the tournament of 3
ApiShapes == {<<1, 1, 2>>, <<1, 1, 3>>, <<2, MaxNumber, 2>>,
              <<1, 3, 3>>, <<1, 2, 4>>}

\* the shapes of the populations of a game run
GameShapes == {<<1, 1, 2>>, <<2, MaxNumber, 2>>, <<1, 2, 3>>}

\* the rate pairs <<CROSSOVER_RATE, MUTATION_RATE>> of the configurations
RatePairs == {<<Rat(0, 1), Rat(0, 1)>>, <<Rat(1, 2), Rat(1, 2)>>,
              <<Rat(1, 1), Rat(1, 1)>>}

\* the configurations Config.validate lets through:
\* POPULATION_SIZE >= 2 and 0 <= ELITISM_COUNT <= POPULATION_SIZE // 2
ValidConfigs(shapes, gens) ==
    UNION {{Config(s[1], s[2], s[3], e, r[1], r[2], g) :
               e \in 0 .. (s[3] \div 2), r \in RatePairs, g \in gens} :
           s \in shapes}

\* Population.__init__
InitialStats == [avg_fitness |-> F(0), best_fitness |-> F(0),
                 best_guess |-> None, unique_values |-> 0]

RECURSIVE RandomPopulations(_, _, _)
RandomPopulations(n, lo, hi) ==
    IF n = 0 THEN {<< >>}
    ELSE {p \o <<i>> : p \in RandomPopulations(n - 1, lo, hi),
                       i \in Individual_random(lo, hi)}

InitPopulation(cfgs) ==
    /\ config \in cfgs
    /\ secret_number \in RandInt(config.MIN_NUMBER, config.MAX_NUMBER)
    /\ individuals \in RandomPopulations(config.POPULATION_SIZE,
                                         config.MIN_NUMBER, config.MAX_NUMBER)
    /\ best_individual = None
    /\ generation_stats = InitialStats
    /\ phase = "Uninitialized"

InitGameVars ==
    /\ pc = "running"
    /\ current_generation = 0
    /\ gm_best_fitness = F(0)
    /\ solution_found = FALSE
    /\ generation_history = << >>
    /\ tracker = << >>
    /\ max_generations_shown = FALSE
    /\ success = None


---------------------------------------------------------------------------
\* The Population driven call by call

ApiEvaluate ==
    /\ mode = "api"
    /\ LET r == evaluate_fitness(individuals, secret_number)
       IN  /\ individuals' = r.individuals
           /\ best_individual' = r.best_individual
           /\ generation_stats' = r.generation_stats
    /\ phase' = "Evaluated"
    /\ UNCHANGED <<mode, config, secret_number, gameVars, lab, fit, sel, twin>>

ApiCreateNextGeneration ==
    /\ mode = "api"
    /\ individuals' \in create_next_generation(individuals)
    /\ phase' = "Bred"
    /\ UNCHANGED <<mode, config, secret_number, best_individual,
                   generation_stats, gameVars, lab, fit, sel, twin>>

---------------------------------------------------------------------------
\* game/game_manager.py run_game with main.py's patched_run_generation

\* the solved threshold of patched_run_generation and of end_tracking
SolvedThreshold == Rat(9999, 100)

\* faulty variant: the exit check one generation late
MaxGenerationsReached_late(generation) == generation > config.MAX_GENERATIONS

\* run_game's exit check after a step: the generation counter has reached
\* MAX_GENERATIONS
MaxGenerationsReached(generation) == generation >= config.MAX_GENERATIONS

\* faulty variant: the next generation bred on a solved step too
AfterEvaluation_always_bred(evaluated, found) == create_next_generation(evaluated)

\* patched_run_generation after the evaluation: the populations it can leave,
\* breeding the next generation only if the solution was not found
AfterEvaluation(evaluated, found) ==
    IF found THEN {evaluated} ELSE create_next_generation(evaluated)

\* One pass of run_game's loop: the counter, the generation step, the
\* after-generation hook and the exit check.
RunGeneration ==
    /\ mode = "game"
    /\ pc = "running"
    /\ ~solution_found
    /\ current_generation' = current_generation + 1
    /\ LET r == evaluate_fitness(individuals, secret_number)
           best == The(r.best_individual)
           found == FLe(SolvedThreshold, best.fitness)
       IN  /\ best_individual' = r.best_individual
           /\ generation_stats' = r.generation_stats
           /\ generation_history' = Append(generation_history,
                 [generation |-> current_generation',
                  best_fitness |-> best.fitness,
                  best_guess |-> best.value,
                  avg_fitness |-> r.generation_stats.avg_fitness])
           /\ gm_best_fitness' = best.fitness
           /\ solution_found' = found
           /\ individuals' \in AfterEvaluation(r.individuals, found)
           /\ phase' = IF found THEN "Evaluated" ELSE "Bred"
           /\ tracker' = Append(tracker,
                 [generation |-> current_generation',
                  best_guess |-> r.generation_stats.best_guess,
                  best_fitness |-> r.generation_stats.best_fitness,
                  avg_fitness |-> r.generation_stats.avg_fitness,
                  diversity |-> get_value_diversity(r.generation_stats),
                  population_size |-> Len(individuals')])
           /\ max_generations_shown' = MaxGenerationsReached(current_generation')
           /\ pc' = IF found \/ MaxGenerationsReached(current_generation')
                    THEN "finished" ELSE "running"
    /\ UNCHANGED <<mode, config, secret_number, success, lab, fit, sel, twin>>

\* main.py after run_game returns: stats_tracker.end_tracking
EndTracking ==
    /\ mode = "game"
    /\ pc = "finished"
    /\ success' = Some(FLe(SolvedThreshold, gm_best_fitness))
    /\ pc' = "ended"
    /\ UNCHANGED <<mode, config, secret_number, popVars, current_generation,
                   gm_best_fitness, solution_found, generation_history,
                   tracker, max_generations_shown, lab, fit, sel, twin>>

---------------------------------------------------------------------------
\* The fitness functions called on their own

\* all the number ranges 1 <= lo <= hi <= MaxNumber, and the range 1..100 of
\* the default configuration
FitBounds == {b \in (1 .. MaxNumber) \X (1 .. MaxNumber) : b[1] <= b[2]}
             \cup {<<1, 100>>}

\* guesses and targets: inside the range and just outside it
FitPoints(lo, hi) ==
    IF hi - lo <= DrawSpan THEN (lo - 2) .. (hi + 2)
    ELSE {lo - 1, lo, 40, 50, hi, hi + 1}

\* no call made: the inputs of the call to come, drawn by InitFitness
FitInputs ==
    UNION {UNION {
        {[fn |-> fn, guess |-> guess, secret |-> secret, min_value |-> b[1],
          max_value |-> b[2], previous_guess |-> prev, called |-> FALSE,
          result |-> F(0)] :
            guess \in FitPoints(b[1], b[2]), secret \in FitPoints(b[1], b[2]),
            prev \in IF fn = "hot_cold"
                     THEN {None} \cup {Some(g) : g \in FitPoints(b[1], b[2])}
                     ELSE {None}} :
        b \in FitBounds} : fn \in FitnessNames}

NoFit == [fn |-> "none", guess |-> 0, secret |-> 0, min_value |-> 0,
          max_value |-> 0, previous_guess |-> None, called |-> FALSE,
          result |-> F(0)]

CallFitness ==
    /\ mode = "fitness"
    /\ ~fit.called
    /\ fit' = [fit EXCEPT !.called = TRUE,
                          !.result = FitnessCall(fit.fn, fit.guess, fit.secret,
                                                 fit.min_value, fit.max_value,
                                                 fit.previous_guess)]
    /\ UNCHANGED <<mode, config, secret_number, popVars, gameVars, lab, sel, twin>>

---------------------------------------------------------------------------
\* The operators applied once to two free-standing individuals.  The inputs
\* are every pair an earlier call can have left: any values in bounds, fresh
\* (fitness 0) or evaluated against a target.

\* the number ranges of the free-standing individuals: binary widths 1, 2, 3
LabBounds == {<<1, 1>>, <<1, 3>>, <<2, MaxNumber>>, <<1, MaxNumber>>}

\* parents are the two argument objects as the call left them and given as
\* they were handed in; returned holds the addresses of the objects handed
\* back; mutation_range, probability, fitness and generation are the
\* arguments of the mutation; call tells a crossover from a mutation
NoLab == [parents |-> << >>, children |-> << >>, op |-> "none",
          call |-> "none",
          probability |-> F(0), raised |-> "none",
          given |-> << >>, returned |-> << >>, mutation_range |-> None,
          fitness |-> F(0), generation |-> 0]

\* parents constructed from explicit values, clamped, or at random
LabParents(lo, hi) ==
    {<<p1, p2>> :
        p1 \in {Individual(v, lo, hi) : v \in (lo - 1) .. (hi + 1)}
               \cup Individual_random(lo, hi),
        p2 \in Individual_random(lo, hi)}

\* the default number range 1..100 (Individual.__init__), with parents at
\* its ends, at 42 and at 50
ScenarioBounds == <<1, 100>>

ScenarioParents ==
    {<<Individual(v1, ScenarioBounds[1], ScenarioBounds[2]),
       Individual(v2, ScenarioBounds[1], ScenarioBounds[2])>> :
        v1 \in {1, 42, 50, 100}, v2 \in {1, 42, 50, 100}}

LabInputs ==
    UNION {
      {[NoLab EXCEPT !.parents = p] : p \in LabParents(b[1], b[2])}
      \cup {[NoLab EXCEPT !.parents = <<calculate_fitness(p[1], t),
                                        calculate_fitness(p[2], t)>>] :
               p \in LabParents(b[1], b[2]), t \in b[1] .. b[2]}
      : b \in LabBounds}
    \cup {[NoLab EXCEPT !.parents = p] : p \in ScenarioParents}

\* faulty variant: the first child is written into the first parent's object
CrossoverObjects_child_in_place(parent1, parent2, children) ==
    IF children = << >>
    THEN [store |-> <<parent1, parent2>>, returned |-> << >>]
    ELSE [store |-> <<children[1], parent2, children[2]>>,
          returned |-> <<1, 3>>]

\* the objects of a crossover call: the two arguments at the addresses 1 and
\* 2, which no operator assigns to, and each child returned, constructed by
\* Individual(...) at the next free address
CrossoverObjects(parent1, parent2, children) ==
    [store |-> <<parent1, parent2>> \o children,
     returned |-> [i \in 1 .. Len(children) |-> 2 + i]]

\* one call of a crossover operator on the two parents
LabCrossover ==
    /\ mode = "lab"
    /\ lab.op = "none"
    /\ \E op \in CrossoverNames :
         \E r \in CrossoverCall(op, lab.parents[1], lab.parents[2]) :
           LET objects == CrossoverObjects(lab.parents[1], lab.parents[2],
                                           r.children)
           IN  lab' = [lab EXCEPT !.children = r.children,
                                  !.raised = r.raised, !.op = op,
                                  !.given = lab.parents,
                                  !.parents = SubSeq(objects.store, 1, 2),
                                  !.returned = objects.returned,
                                  !.call = "crossover"]
    /\ UNCHANGED <<mode, config, secret_number, popVars, gameVars, fit, sel, twin>>

\* faulty variant: without crossover the parents themselves are the children
Offspring_parents_themselves(parent1, parent2, u) ==
    IF FLt(u, crossover_rate)
    THEN {[store |-> <<parent1, parent2, c[1], c[2]>>, children |-> <<3, 4>>] :
             c \in Individual_crossover(parent1, parent2)}
    ELSE {[store |-> <<parent1, parent2>>, children |-> <<1, 2>>]}

\* create_next_generation, the crossover step of the breeding loop on the
\* two parents selected, objects of self.individuals at the addresses 1 and
\* 2: child1 and child2 are the objects parent1.crossover(parent2) returns
\* or parent1.clone() and parent2.clone(), at new addresses
Offspring(parent1, parent2, u) ==
    IF FLt(u, crossover_rate)
    THEN {[store |-> <<parent1, parent2, c[1], c[2]>>, children |-> <<3, 4>>] :
             c \in Individual_crossover(parent1, parent2)}
    ELSE {[store |-> <<parent1, parent2, clone(parent1), clone(parent2)>>,
           children |-> <<3, 4>>]}

\* child.mutate(self.mutation_range, self.mutation_rate) on the object at
\* an address
MutateAt(store, address, range) ==
    {[store EXCEPT ![address] = m] :
        m \in Individual_mutate(store[address], range, mutation_rate)}

\* one pass of the breeding loop from the crossover on: the objects it leaves
BreedObjects(parent1, parent2) ==
    LET range == PopulationRange(parent1.min_value, parent1.max_value)
    IN  UNION {UNION {UNION {
            {[store |-> s2, children |-> o.children] :
                s2 \in MutateAt(s1, o.children[2], range)} :
            s1 \in MutateAt(o.store, o.children[1], range)} :
            o \in Offspring(parent1, parent2, u)} : u \in UnitDraws}

\* one pass of the breeding loop of create_next_generation on the two
\* parents, with the rates of the configuration
LabBreed ==
    /\ mode = "lab"
    /\ lab.op = "none"
    /\ \E r \in BreedObjects(lab.parents[1], lab.parents[2]) :
          lab' = [lab EXCEPT !.children = <<r.store[r.children[1]],
                                            r.store[r.children[2]]>>,
                             !.op = "create_next_generation",
                             !.call = "breeding",
                             !.given = lab.parents,
                             !.parents = SubSeq(r.store, 1, 2),
                             !.returned = r.children,
                             !.probability = mutation_rate,
                             !.mutation_range =
                                 Some(PopulationRange(lab.parents[1].min_value,
                                                      lab.parents[1].max_value))]
    /\ UNCHANGED <<mode, config, secret_number, popVars, gameVars, fit, sel, twin>>

\* one call of a mutation operator on a clone of the first parent, kept as
\* the only child
LabMutate ==
    /\ mode = "lab"
    /\ lab.op = "none"
    /\ \E op \in MutationNames, p \in Probabilities :
         \E r \in MutationCall(op, clone(lab.parents[1]), p) :
           lab' = [lab EXCEPT !.children = <<r.individual>>,
                              !.raised = r.raised, !.op = op,
                              !.probability = r.probability,
                              !.mutation_range = r.mutation_range,
                              !.fitness = r.fitness,
                              !.generation = r.generation,
                              !.given = lab.parents,
                              !.returned = << >>,
                              !.call = "mutation"]
    /\ UNCHANGED <<mode, config, secret_number, popVars, gameVars, fit, sel, twin>>

---------------------------------------------------------------------------
\* Two runs under one seed.  The random module is a deterministic stream
\* once seeded: rng is [seed, pos] and every draw reads the output at pos
\* and moves pos on by one.

\* the pos-th raw output of the stream of a seed
Raw(rng) == rng.seed * (rng.pos + 1) + (rng.pos * (rng.pos + 1)) \div 2

Advance(rng) == [rng EXCEPT !.pos = @ + 1]

\* random.seed(seed)
Seeded(seed) == [seed |-> seed, pos |-> 0]

\* random.randint(lo, hi) on the stream
Seeded_randint(rng, lo, hi) ==
    [value |-> lo + (Raw(rng) % (hi - lo + 1)), rng |-> Advance(rng)]

\* random.random() on the stream: one of the UnitDraws
Seeded_random(rng) ==
    [value |-> <<Rat(0, 1), Rat(1, 2), Rat(9, 10)>>[(Raw(rng) % 3) + 1],
     rng |-> Advance(rng)]

\* Population.__init__: population_size individuals drawn one after another
RECURSIVE Seeded_population(_, _)
Seeded_population(rng, inds) ==
    IF Len(inds) >= population_size THEN [individuals |-> inds, rng |-> rng]
    ELSE LET d == Seeded_randint(rng, min_value, max_value)
         IN  Seeded_population(d.rng,
                 Append(inds, [value |-> d.value, min_value |-> min_value,
                               max_value |-> max_value, fitness |-> F(0)]))

\* Population._tournament_selection: random.sample puts min(size, n) members
\* in an order the stream decides; max() returns the first of the fittest
Seeded_tournament_selection(rng, inds, tournament_size) ==
    LET n == Len(inds)
        k == Min2(tournament_size, n)
        tournament == [i \in 1 .. k |-> inds[((Raw(rng) + i - 1) % n) + 1]]
        first == CHOOSE i \in 1 .. k :
                    /\ \A j \in 1 .. k :
                          FLe(tournament[j].fitness, tournament[i].fitness)
                    /\ \A j \in 1 .. (i - 1) :
                          FLt(tournament[j].fitness, tournament[i].fitness)
    IN  [individual |-> tournament[first], rng |-> Advance(rng)]

\* the re-selection loop of create_next_generation
RECURSIVE Seeded_reselect(_, _, _, _, _)
Seeded_reselect(rng, inds, parent1, parent2, attempts) ==
    IF parent1.value = parent2.value /\ attempts < 5
    THEN LET t == Seeded_tournament_selection(rng, inds, 3)
         IN  Seeded_reselect(t.rng, inds, parent1, t.individual, attempts + 1)
    ELSE [individual |-> parent2, rng |-> rng]

\* Individual.crossover: the loop that redraws the offset of the second child
RECURSIVE Seeded_offset(_, _, _, _)
Seeded_offset(rng, average, difference, child1_value) ==
    LET d == Seeded_randint(rng, -difference, difference)
    IN  IF average + d.value = child1_value
        THEN Seeded_offset(d.rng, average, difference, child1_value)
        ELSE d

\* Individual.crossover on the stream
Seeded_crossover(rng, self, partner) ==
    LET average == (self.value + partner.value) \div 2
        difference == Abs(self.value - partner.value)
        lo == self.min_value
        hi == self.max_value
    IN  IF difference = 0
        THEN LET r1 == Seeded_randint(rng, 1, 3)
                 r2 == Seeded_randint(r1.rng, 1, 3)
             IN  [child1 |-> Individual(Clamp(self.value + r1.value, lo, hi), lo, hi),
                  child2 |-> Individual(Clamp(self.value - r2.value, lo, hi), lo, hi),
                  rng |-> r2.rng]
        ELSE LET r == Seeded_randint(rng, -difference, difference)
                 child1_value == Clamp(average + r.value, lo, hi)
                 offset == Seeded_offset(r.rng, average, difference, child1_value)
             IN  [child1 |-> Individual(child1_value, lo, hi),
                  child2 |-> Individual(Clamp(average + offset.value, lo, hi), lo, hi),
                  rng |-> offset.rng]

\* Individual.mutate: the loop that redraws a zero change
RECURSIVE Seeded_change(_, _)
Seeded_change(rng, given_range) ==
    LET d == Seeded_randint(rng, -given_range, given_range)
    IN  IF d.value = 0 THEN Seeded_change(d.rng, given_range) ELSE d

\* Individual.mutate on the stream
Seeded_mutate(rng, ind, given_range, mutation_probability) ==
    LET u == Seeded_random(rng)
        change == Seeded_change(u.rng, given_range)
    IN  IF FLt(mutation_probability, u.value)
        THEN [individual |-> ind, rng |-> u.rng]
        ELSE [individual |->
                 [ind EXCEPT !.value = Clamp(ind.value + change.value,
                                             ind.min_value, ind.max_value)],
              rng |-> change.rng]

\* Population.create_next_generation on the stream: the breeding loop
RECURSIVE Seeded_fill(_, _, _)
Seeded_fill(rng, inds, new_population) ==
    IF Len(new_population) >= population_size
    THEN [individuals |-> new_population, rng |-> rng]
    ELSE LET first == Seeded_tournament_selection(rng, inds, 3)
             second == Seeded_tournament_selection(first.rng, inds, 3)
             parent1 == first.individual
             parent2 == Seeded_reselect(second.rng, inds, parent1,
                                        second.individual, 0)
             u == Seeded_random(parent2.rng)
             crossed ==
                 IF FLt(u.value, crossover_rate)
                 THEN Seeded_crossover(u.rng, parent1, parent2.individual)
                 ELSE [child1 |-> clone(parent1),
                       child2 |-> clone(parent2.individual), rng |-> u.rng]
             m1 == Seeded_mutate(crossed.rng, crossed.child1, mutation_range,
                                 mutation_rate)
             m2 == Seeded_mutate(m1.rng, crossed.child2, mutation_range,
                                 mutation_rate)
         IN  Seeded_fill(m2.rng, inds,
                 IF Len(new_population) + 1 < population_size
                 THEN new_population \o <<m1.individual, m2.individual>>
                 ELSE new_population \o <<m1.individual>>)

Seeded_create_next_generation(rng, inds) ==
    Seeded_fill(rng, inds, Elites(inds))

\* faulty variant: the random module seeded again from the clock
RngOfRun_from_clock(rng, start_time) == Seeded(start_time)

\* run_game reads the clock into start_time and leaves the random module as
\* it is
RngOfRun(rng, start_time) == rng

\* main up to the loop of run_game, after random.seed(seed): the Population
\* is built, the clock is read
StartRun(seed, start_time) ==
    LET p == Seeded_population(Seeded(seed), << >>)
    IN  [individuals |-> p.individuals,
         rng |-> RngOfRun(p.rng, start_time),
         start_time |-> start_time,
         current_generation |-> 0,
         solution_found |-> FALSE,
         records |-> << >>]

\* the run is out of run_game's loop
RunOver(run) ==
    run.solution_found \/ MaxGenerationsReached(run.current_generation)

\* one pass of run_game's loop with patched_run_generation and the
\* after-generation hook, on the stream; record_generation stamps the record
\* with the clock, which moves on with every pass; a run that is over stays
\* as it is
SeededGeneration(run) ==
    IF RunOver(run) THEN run
    ELSE LET r == evaluate_fitness(run.individuals, secret_number)
             best == The(r.best_individual)
             found == FLe(SolvedThreshold, best.fitness)
             bred == Seeded_create_next_generation(run.rng, r.individuals)
         IN  [run EXCEPT
                 !.current_generation = @ + 1,
                 !.solution_found = found,
                 !.individuals = IF found THEN r.individuals ELSE bred.individuals,
                 !.rng = IF found THEN run.rng ELSE bred.rng,
                 !.records = Append(@,
                     [generation |-> run.current_generation + 1,
                      best_guess |-> best.value,
                      best_fitness |-> best.fitness,
                      avg_fitness |-> r.generation_stats.avg_fitness,
                      diversity |-> get_value_diversity(r.generation_stats),
                      timestamp |-> run.start_time + run.current_generation + 1])]

\* no selection call made
NoSel == [op |-> "none", population |-> << >>, argument |-> 0,
          tournament |-> << >>, pointers |-> << >>, selected |-> << >>,
          raised |-> "none", given |-> << >>, returned |-> << >>,
          attempts |-> 0]

\* no pair of runs
NoTwin == [seed |-> 0]

\* the shapes <<MIN_NUMBER, MAX_NUMBER, POPULATION_SIZE>> of the seeded runs
TwinShapes == {<<1, 3, 2>>, <<1, MaxNumber, 3>>}

\* the values time.time() returns to the two runs
Clocks == 0 .. 1

\* two runs of main with the same configuration and target, after
\* random.seed(seed) with the same seed; each run reads its own clock
InitTwin ==
    /\ mode = "twin"
    /\ config \in ValidConfigs(TwinShapes, 1 .. MaxGens)
    /\ secret_number \in RandInt(config.MIN_NUMBER, config.MAX_NUMBER)
    /\ individuals = << >>
    /\ best_individual = None
    /\ generation_stats = InitialStats
    /\ phase = "Uninitialized"
    /\ InitGameVars
    /\ lab = NoLab
    /\ fit = NoFit
    /\ sel = NoSel
    /\ twin \in {[seed |-> seed, a |-> StartRun(seed, ta), b |-> StartRun(seed, tb)] :
                    seed \in 0 .. MaxSeed, ta \in Clocks, tb \in Clocks}

\* both runs make their next pass of the loop
TwinGeneration ==
    /\ mode = "twin"
    /\ ~RunOver(twin.a) \/ ~RunOver(twin.b)
    /\ twin' = [twin EXCEPT !.a = SeededGeneration(twin.a),
                            !.b = SeededGeneration(twin.b)]
    /\ UNCHANGED <<mode, config, secret_number, popVars, gameVars, lab, fit, sel>>

SpecTwin == InitTwin /\ [][TwinGeneration]_vars

---------------------------------------------------------------------------
\* utils/config.py: the Config object, and the two places a parameter set is
\* put together for a run.  In this part `config` is Config.config, or the
\* dictionary GameManager keeps.

\* Config._validate_range on an integer key
_validate_range(cfg, key, min_val, max_val) ==
    [cfg EXCEPT ![key] = Max2(min_val, Min2(cfg[key], max_val))]

\* Config._validate_range on a float key
_validate_range_float(cfg, key, min_val, max_val) ==
    [cfg EXCEPT ![key] = FMax(min_val, FMin(cfg[key], max_val))]

\* the method checks of Config.validate: an unknown name becomes the default
_validate_method(cfg, key, valid, default) ==
    IF cfg[key] \in valid THEN cfg ELSE [cfg EXCEPT ![key] = default]

\* Config.validate
validate(cfg) ==
    LET c1 == _validate_range(cfg, "MIN_NUMBER", 1, 1000000)
        c2 == _validate_range(c1, "MAX_NUMBER", c1.MIN_NUMBER, 1000000)
        c3 == _validate_range(c2, "MAX_GENERATIONS", 1, 100000)
        c4 == _validate_range(c3, "POPULATION_SIZE", 2, 1000)
        c5 == _validate_range_float(c4, "CROSSOVER_RATE", F(0), F(1))
        c6 == _validate_range_float(c5, "MUTATION_RATE", F(0), F(1))
        c7 == _validate_range(c6, "ELITISM_COUNT", 0, c6.POPULATION_SIZE \div 2)
        c8 == _validate_method(c7, "SELECTION_METHOD",
                               {"tournament", "roulette", "rank"}, "tournament")
        c9 == _validate_method(c8, "CROSSOVER_METHOD",
                  {"arithmetic", "average", "binary", "binary_two_point",
                   "adaptive"}, "adaptive")
        c10 == _validate_method(c9, "MUTATION_METHOD",
                  {"random", "bit_flip", "boundary", "gaussian", "adaptive"},
                  "adaptive")
    IN  _validate_method(c10, "FITNESS_METHOD",
            {"linear", "inverse", "exponential", "combined", "hot_cold"},
            "linear")

\* Config.update: the known keys of config_dict are stored
update(cfg, config_dict) ==
    [key \in DOMAIN cfg |->
        IF key \in DOMAIN config_dict THEN config_dict[key] ELSE cfg[key]]

\* Config.__init__
Config_init(config_dict) == validate(update(DEFAULT_CONFIG, config_dict))

\* Config.__setitem__
Config_setitem(cfg, key, value) ==
    IF key \in DOMAIN cfg THEN validate([cfg EXCEPT ![key] = value]) ELSE cfg

\* main.py configure_from_args without --config: Config() and then update
\* with the command-line arguments
configure_from_args(args) == update(Config_init(<< >>), args)

\* Display.get_parameter: the default on empty input, else an input inside
\* [min_val, max_val]
get_parameter(default, min_val, max_val, inputs) ==
    {default} \cup {v \in inputs : min_val <= v /\ v <= max_val}

\* values a caller or a user may give, valid and not
GivenValues(key) ==
    CASE key = "POPULATION_SIZE" -> {1, 2, 4, 5, 1001}
      [] key = "ELITISM_COUNT" -> {-1, 0, 1, 2, 3, 50}
      [] key = "MIN_NUMBER" -> {0, 2}
      [] key = "MAX_NUMBER" -> {1, 3}

\* the keys given
GivenKeys == {"POPULATION_SIZE", "ELITISM_COUNT", "MIN_NUMBER", "MAX_NUMBER"}

\* the dictionaries handed to Config(...) and to Config.update
GivenDicts ==
    UNION {{d \in [K -> UNION {GivenValues(key) : key \in K}] :
               \A key \in K : d[key] \in GivenValues(key)} :
           K \in {K \in SUBSET GivenKeys : Cardinality(K) <= 2}}

\* config = Config(config_dict)
ConfigConstruct ==
    /\ mode = "config"
    /\ \E d \in GivenDicts : config' = Config_init(d)
    /\ UNCHANGED <<mode, secret_number, popVars, gameVars, lab, fit, sel, twin>>

\* config.update(config_dict)
ConfigUpdate ==
    /\ mode = "config"
    /\ \E d \in GivenDicts : config' = update(config, d)
    /\ UNCHANGED <<mode, secret_number, popVars, gameVars, lab, fit, sel, twin>>

\* config[key] = value
ConfigSetItem ==
    /\ mode = "config"
    /\ \E key \in GivenKeys : \E value \in GivenValues(key) :
          config' = Config_setitem(config, key, value)
    /\ UNCHANGED <<mode, secret_number, popVars, gameVars, lab, fit, sel, twin>>

\* config = configure_from_args(args): --population and --elitism given,
\* the other arguments at their defaults
ConfigureFromArgs ==
    /\ mode = "config"
    /\ \E population \in GivenValues("POPULATION_SIZE") :
       \E elitism \in GivenValues("ELITISM_COUNT") :
          config' = configure_from_args(
                        [DEFAULT_CONFIG EXCEPT !.POPULATION_SIZE = population,
                                               !.ELITISM_COUNT = elitism])
    /\ UNCHANGED <<mode, secret_number, popVars, gameVars, lab, fit, sel, twin>>

\* GameManager._set_game_parameters when the user asks to customise: the
\* prompts for the population size and the elitism count, each stored in the
\* dictionary
SetGameParameters ==
    /\ mode = "config"
    /\ \E pop_size \in get_parameter(config.POPULATION_SIZE, 1, 100,
                                     GivenValues("POPULATION_SIZE")) :
       \E elitism \in get_parameter(config.ELITISM_COUNT, 0, pop_size \div 2,
                                    GivenValues("ELITISM_COUNT")) :
          config' = [config EXCEPT !.POPULATION_SIZE = pop_size,
                                   !.ELITISM_COUNT = elitism]
    /\ UNCHANGED <<mode, secret_number, popVars, gameVars, lab, fit, sel, twin>>

---------------------------------------------------------------------------
\* genetic_algorithm/selection.py, and the selection methods of Population.
\* A selection call leaves [tournament, pointers, selected, raised]:
\* tournament is the sample drawn (as positions in the population), pointers
\* the selection points drawn or computed, selected the individuals returned
\* in order, raised the exception or "none".

\* random.sample(population, k): the k positions in the order drawn, no
\* position twice
Samples(n, k) ==
    {s \in [1 .. k -> 1 .. n] : \A i, j \in 1 .. k : s[i] = s[j] => i = j}

\* faulty variant: min() in place of max()
MinByFitness(population, tournament) ==
    LET least(i) == \A j \in 1 .. Len(tournament) :
                       FLe(population[tournament[i]].fitness,
                           population[tournament[j]].fitness)
    IN  tournament[CHOOSE i \in 1 .. Len(tournament) :
                      least(i) /\ \A j \in 1 .. (i - 1) : ~least(j)]

\* max(tournament, key=lambda ind: ind.fitness): the first of the fittest in
\* the order of the sample
MaxByFitness(population, tournament) ==
    LET best(i) == \A j \in 1 .. Len(tournament) :
                      FLe(population[tournament[j]].fitness,
                          population[tournament[i]].fitness)
    IN  tournament[CHOOSE i \in 1 .. Len(tournament) :
                      best(i) /\ \A j \in 1 .. (i - 1) : ~best(j)]

Selected(tournament, pointers, selected) ==
    [tournament |-> tournament, pointers |-> pointers,
     selected |-> selected, raised |-> "none"]

\* Selection.tournament_selection
tournament_selection(population, tournament_size) ==
    {Selected(tournament, << >>,
              <<population[MaxByFitness(population, tournament)]>>) :
        tournament \in Samples(Len(population),
                               Min2(tournament_size, Len(population)))}

\* random.uniform(0, b) is 0 + b * random.random(): the fractions of b drawn,
\* b itself among them (rounding can give the end point)
UniformDraws == {Rat(0, 1), Rat(1, 4), Rat(1, 2), Rat(3, 4), Rat(1, 1)}

Fitnesses(population) ==
    [i \in 1 .. Len(population) |-> population[i].fitness]

\* faulty variant: the walk stops at the first running sum above the pointer
RECURSIVE WalkTo_above(_, _, _, _)
WalkTo_above(population, pointer, i, current_sum) ==
    IF i > Len(population) THEN 0
    ELSE LET sum == FAdd(current_sum, population[i].fitness)
         IN  IF FLt(pointer, sum) THEN i
             ELSE WalkTo_above(population, pointer, i + 1, sum)

\* the walk of roulette_wheel_selection and of stochastic_universal_sampling:
\* the position of the first individual whose running sum of fitness reaches
\* the pointer, 0 when the loop ends without one
RECURSIVE WalkTo(_, _, _, _)
WalkTo(population, pointer, i, current_sum) ==
    IF i > Len(population) THEN 0
    ELSE LET sum == FAdd(current_sum, population[i].fitness)
         IN  IF FLe(pointer, sum) THEN i
             ELSE WalkTo(population, pointer, i + 1, sum)

\* Selection.roulette_wheel_selection
roulette_wheel_selection(population) ==
    LET total_fitness == FSum(Fitnesses(population))
    IN  IF FEq(total_fitness, F(0))
        THEN {Selected(<< >>, << >>, <<population[i]>>) :
                 i \in 1 .. Len(population)}
        ELSE {LET selection_point == FMul(total_fitness, u)
                  at == WalkTo(population, selection_point, 1, F(0))
              IN  Selected(<< >>, <<selection_point>>,
                           <<population[IF at = 0 THEN Len(population)
                                        ELSE at]>>) :
                 u \in UniformDraws}

\* Population._roulette_wheel_selection on self.individuals
_roulette_wheel_selection(inds) ==
    LET total_fitness == FSum(Fitnesses(inds))
    IN  IF FEq(total_fitness, F(0))
        THEN {Selected(<< >>, << >>, <<inds[i]>>) : i \in 1 .. Len(inds)}
        ELSE {LET selection_point == FMul(total_fitness, u)
                  at == WalkTo(inds, selection_point, 1, F(0))
              IN  Selected(<< >>, <<selection_point>>,
                           <<inds[IF at = 0 THEN Len(inds) ELSE at]>>) :
                 u \in UniformDraws}

\* the selecting loop of stochastic_universal_sampling from pointer k on:
\* the individual the walk stops at is appended, and then, still inside the
\* loop over the pointers, population[-1] is appended whenever fewer
\* individuals than pointers are selected so far
RECURSIVE SelectAtPointers(_, _, _, _)
SelectAtPointers(population, pointers, k, selected) ==
    IF k > Len(pointers) THEN selected
    ELSE LET at == WalkTo(population, pointers[k], 1, F(0))
             walked == IF at = 0 THEN selected
                       ELSE Append(selected, population[at])
             filled == IF Len(walked) < Len(pointers)
                       THEN Append(walked, population[Len(population)])
                       ELSE walked
         IN  SelectAtPointers(population, pointers, k + 1, filled)

\* Selection.stochastic_universal_sampling
stochastic_universal_sampling(population, num_selections) ==
    LET total_fitness == FSum(Fitnesses(population))
    IN  IF FEq(total_fitness, F(0))
        THEN {Selected(<< >>, << >>, [k \in 1 .. num_selections |->
                                         population[choice[k]]]) :
                 choice \in [1 .. num_selections -> 1 .. Len(population)]}
        ELSE {LET pointer_distance == FDiv(total_fitness, F(num_selections))
                  start == FMul(pointer_distance, u)
                  pointers == [i \in 1 .. num_selections |->
                                  FAdd(start, FMul(F(i - 1), pointer_distance))]
              IN  Selected(<< >>, pointers,
                           SelectAtPointers(population, pointers, 1, << >>)) :
                 u \in UniformDraws}

\* faulty variant: the top individuals themselves are returned
elitism_selection_no_clone(population, n) ==
    LET sorted_population == SortByFitness(<< >>, population)
        top == SubSeq(sorted_population, 1, Min2(n, Len(population)))
    IN  [store |-> population,
         returned |-> [i \in 1 .. Len(top) |->
                          CHOOSE j \in 1 .. Len(population) :
                              population[j] = top[i]]]

\* Selection.elitism_selection for n >= 0, on the objects of the call: the
\* individuals of population at the addresses 1..len, sorted() reading them
\* into a list of its own, and a clone of each of the first n of that list
\* at a new address
elitism_selection(population, n) ==
    LET sorted_population == SortByFitness(<< >>, population)
        top == SubSeq(sorted_population, 1, Min2(n, Len(population)))
    IN  [store |-> population \o [i \in 1 .. Len(top) |-> clone(top[i])],
         returned |-> [i \in 1 .. Len(top) |-> Len(population) + i]]

\* the number range of the individuals selected from
SelBounds == <<1, 3>>

\* the populations selected from: individuals in bounds, the first `scored`
\* of them evaluated against the target and the others fresh (fitness 0), as
\* a new population is (none), an evaluated one (all), and one just bred
\* (the elites' clones)
SelPopulations ==
    UNION {UNION {
        {[i \in 1 .. n |-> IF i <= scored
                           THEN calculate_fitness(
                                    Individual(values[i], SelBounds[1],
                                               SelBounds[2]), target)
                           ELSE Individual(values[i], SelBounds[1],
                                           SelBounds[2])] :
            values \in [1 .. n -> SelBounds[1] .. SelBounds[2]],
            scored \in 0 .. n} :
        target \in SelBounds[1] .. SelBounds[2]} : n \in 1 .. SelSize}

\* the calls of one selection method: every choice of its size argument
SelectionCall(op, population, argument) ==
    CASE op = "Selection.tournament_selection" ->
            tournament_selection(population, argument)
      [] op = "Population._tournament_selection" ->
            {Selected(<< >>, << >>, <<ind>>) :
                ind \in _tournament_selection(population, argument)}
      [] op = "Selection.roulette_wheel_selection" ->
            roulette_wheel_selection(population)
      [] op = "Population._roulette_wheel_selection" ->
            _roulette_wheel_selection(population)
      [] op = "Selection.stochastic_universal_sampling" ->
            stochastic_universal_sampling(population, argument)

\* the size arguments: tournament sizes up to one above the largest
\* population, numbers of selections from 1; the roulette takes none
Arguments(op) ==
    CASE op \in {"Selection.tournament_selection",
                 "Population._tournament_selection"} -> 1 .. (SelSize + 1)
      [] op = "Selection.stochastic_universal_sampling" -> 1 .. SelSize
      [] OTHER -> {0}

\* a tournament over the held population
SelectTournament ==
    /\ mode = "selection"
    /\ sel.op = "none"
    /\ \E op \in {"Selection.tournament_selection",
                  "Population._tournament_selection"} :
       \E tournament_size \in Arguments(op) :
       \E r \in SelectionCall(op, sel.population, tournament_size) :
          sel' = [sel EXCEPT !.op = op, !.argument = tournament_size,
                             !.tournament = r.tournament,
                             !.selected = r.selected,
                             !.raised = r.raised]
    /\ UNCHANGED <<mode, config, secret_number, popVars, gameVars, lab, fit, twin>>

\* one turn of the roulette wheel over the held population
SelectRoulette ==
    /\ mode = "selection"
    /\ sel.op = "none"
    /\ \E op \in {"Selection.roulette_wheel_selection",
                  "Population._roulette_wheel_selection"} :
       \E r \in SelectionCall(op, sel.population, 0) :
          sel' = [sel EXCEPT !.op = op, !.pointers = r.pointers,
                             !.selected = r.selected,
                             !.raised = r.raised]
    /\ UNCHANGED <<mode, config, secret_number, popVars, gameVars, lab, fit, twin>>

\* faulty variant: the loop goes on while attempts <= 5
RECURSIVE SelectParent2_six(_, _, _, _)
SelectParent2_six(T, parent1, picks, attempts) ==
    UNION {IF parent1.value = parent2.value /\ attempts <= 5
           THEN SelectParent2_six(T, parent1, Append(picks, parent2),
                                  attempts + 1)
           ELSE {[picks |-> Append(picks, parent2), attempts |-> attempts]} :
              parent2 \in T}

\* parent2 = self._tournament_selection(3) and the loop that follows it in
\* create_next_generation, T being what a tournament can return: picks are
\* the individuals selected as parent2 one after the other, the last the one
\* kept, attempts the counter of the loop
RECURSIVE SelectParent2(_, _, _, _)
SelectParent2(T, parent1, picks, attempts) ==
    UNION {IF parent1.value = parent2.value /\ attempts < 5
           THEN SelectParent2(T, parent1, Append(picks, parent2), attempts + 1)
           ELSE {[picks |-> Append(picks, parent2), attempts |-> attempts]} :
              parent2 \in T}

\* the selection of the two parents in one pass of the breeding loop
SelectParents(inds) ==
    LET T == _tournament_selection(inds, 3)
    IN  UNION {{[parent1 |-> parent1, picks |-> r.picks,
                 attempts |-> r.attempts] :
                   r \in SelectParent2(T, parent1, << >>, 0)} : parent1 \in T}

\* the parents of one pass of the breeding loop selected from the held
\* population: selected holds parent1 and after it every parent2 selected
SelectBreedingParents ==
    /\ mode = "selection"
    /\ sel.op = "none"
    /\ \E r \in SelectParents(sel.population) :
          sel' = [sel EXCEPT !.op = "Population.create_next_generation",
                             !.argument = 3,
                             !.selected = <<r.parent1>> \o r.picks,
                             !.attempts = r.attempts]
    /\ UNCHANGED <<mode, config, secret_number, popVars, gameVars, lab, fit, twin>>

\* the elite of the held population, for n from 0 to one above the largest
\* population
SelectElite ==
    /\ mode = "selection"
    /\ sel.op = "none"
    /\ \E n \in 0 .. (SelSize + 1) :
          LET r == elitism_selection(sel.population, n)
              len == Len(sel.population)
          IN  sel' = [sel EXCEPT !.op = "Selection.elitism_selection",
                                 !.argument = n,
                                 !.given = sel.population,
                                 !.population = SubSeq(r.store, 1, len),
                                 !.returned = r.returned,
                                 !.selected = [i \in 1 .. Len(r.returned) |->
                                                  r.store[r.returned[i]]]]
    /\ UNCHANGED <<mode, config, secret_number, popVars, gameVars, lab, fit, twin>>

\* stochastic universal sampling over the held population
SelectSampling ==
    /\ mode = "selection"
    /\ sel.op = "none"
    /\ \E num_selections \in Arguments("Selection.stochastic_universal_sampling") :
       \E r \in SelectionCall("Selection.stochastic_universal_sampling",
                              sel.population, num_selections) :
          sel' = [sel EXCEPT !.op = "Selection.stochastic_universal_sampling",
                             !.argument = num_selections,
                             !.pointers = r.pointers,
                             !.selected = r.selected,
                             !.raised = r.raised]
    /\ UNCHANGED <<mode, config, secret_number, popVars, gameVars, lab, fit, twin>>

---------------------------------------------------------------------------

\* No Population is constructed: the configuration is DEFAULT_CONFIG
InitIdle ==
    /\ config = DEFAULT_CONFIG
    /\ secret_number = 0
    /\ individuals = << >>
    /\ best_individual = None
    /\ generation_stats = InitialStats
    /\ phase = "Uninitialized"
    /\ InitGameVars

InitApi ==
    /\ mode = "api"
    /\ InitPopulation(ValidConfigs(ApiShapes, {MaxGens}))
    /\ InitGameVars
    /\ lab = NoLab
    /\ fit = NoFit
    /\ sel = NoSel
    /\ twin = NoTwin

InitGame ==
    /\ mode = "game"
    /\ InitPopulation(ValidConfigs(GameShapes, 1 .. MaxGens))
    /\ InitGameVars
    /\ lab = NoLab
    /\ fit = NoFit
    /\ sel = NoSel
    /\ twin = NoTwin

InitLab ==
    /\ mode = "lab"
    /\ InitIdle
    /\ lab \in LabInputs
    /\ fit = NoFit
    /\ sel = NoSel
    /\ twin = NoTwin

Init == InitApi \/ InitGame \/ InitLab

NextPopulation == ApiEvaluate \/ ApiCreateNextGeneration
NextGame == RunGeneration \/ EndTracking

NextLab == LabCrossover \/ LabMutate \/ LabBreed

Next == NextPopulation \/ NextGame \/ NextLab

Spec == Init /\ [][Next]_vars

\* a game run over the wide number range 1 .. WideMax
InitWide ==
    /\ mode = "game"
    /\ InitPopulation(ValidConfigs({<<1, WideMax, 2>>}, 1 .. 2))
    /\ InitGameVars
    /\ lab = NoLab
    /\ fit = NoFit
    /\ sel = NoSel
    /\ twin = NoTwin

SpecWide == InitWide /\ [][NextGame]_vars

\* the choices of --selection, --crossover, --mutation and --fitness
MethodChoices ==
    {"tournament", "rank"} \X {"adaptive"} \X {"adaptive"}
        \X {"linear", "inverse", "exponential", "combined", "hot_cold"}

\* a Population built from a configuration that names its methods, driven
\* call by call
InitMethods ==
    /\ mode = "api"
    /\ InitPopulation({WithMethods(cfg, m[1], m[2], m[3], m[4]) :
                          cfg \in ValidConfigs({<<1, 3, 2>>}, {MaxGens}),
                          m \in MethodChoices})
    /\ InitGameVars
    /\ lab = NoLab
    /\ fit = NoFit
    /\ sel = NoSel
    /\ twin = NoTwin

SpecMethods == InitMethods /\ [][NextPopulation]_vars

\* the Config object after Config(), then constructed, updated and assigned
\* to in any order
InitConfig ==
    /\ mode = "config"
    /\ InitIdle
    /\ lab = NoLab
    /\ fit = NoFit
    /\ sel = NoSel
    /\ twin = NoTwin

NextConfig ==
    \/ ConfigConstruct
    \/ ConfigUpdate
    \/ ConfigSetItem
    \/ ConfigureFromArgs
    \/ SetGameParameters

SpecConfig == InitConfig /\ [][NextConfig]_vars

\* one selection call on a population of individuals
InitSelection ==
    /\ mode = "selection"
    /\ InitIdle
    /\ lab = NoLab
    /\ fit = NoFit
    /\ sel \in {[NoSel EXCEPT !.population = p] : p \in SelPopulations}
    /\ twin = NoTwin

NextSelection ==
    \/ SelectTournament
    \/ SelectRoulette
    \/ SelectSampling
    \/ SelectElite
    \/ SelectBreedingParents

SpecSelection == InitSelection /\ [][NextSelection]_vars

InitFitness ==
    /\ mode = "fitness"
    /\ InitIdle
    /\ lab = NoLab
    /\ fit \in FitInputs
    /\ sel = NoSel
    /\ twin = NoTwin

SpecFitness == InitFitness /\ [][CallFitness]_vars

---------------------------------------------------------------------------
\* Properties

\* every Individual the state holds
AllIndividuals ==
    {individuals[i] : i \in 1 .. Len(individuals)}
    \cup best_individual
    \cup {lab.parents[i] : i \in 1 .. Len(lab.parents)}
    \cup {lab.children[i] : i \in 1 .. Len(lab.children)}

\* C1: every Individual satisfies min_value <= value <= max_value, after
\* construction and after any sequence of evaluations, breedings, crossovers
\* and mutations.
C1_ValueInBounds ==
    \A ind \in AllIndividuals :
        ind.min_value <= ind.value /\ ind.value <= ind.max_value

\* C1 witness: Individual.crossover of two parents that both sit on the upper
\* bound, which has to clamp its first child back onto the bound.
C1_ClampedChild ==
    /\ lab.op = "Individual.crossover"
    /\ lab.parents[1].value = lab.parents[1].max_value
    /\ lab.parents[2].value = lab.parents[1].max_value
    /\ lab.parents[1].min_value < lab.parents[1].max_value
    /\ lab.children[1].value = lab.parents[1].max_value

\* C2: after every create_next_generation the population holds exactly
\* population_size individuals, whatever the elitism count, odd remainders
\* included.
C2_SizeKept == phase = "Bred" => Len(individuals) = population_size

\* C2 witness: a bred generation whose population_size - elitism_count is odd,
\* so that the last pair gave only its first child.
C2_OddSlotBred ==
    /\ mode = "api"
    /\ phase = "Bred"
    /\ (population_size - elitism_count) % 2 = 1
    /\ elitism_count >= 1

\* C3: with elitism_count >= 1 and the target fixed, the best fitness an
\* evaluation records is never below the best fitness the evaluation before
\* it recorded.
C3_BestFitnessNonDecreasing ==
    [][(elitism_count >= 1 /\ generation_stats.best_guess # None)
         => FLe(generation_stats.best_fitness, generation_stats'.best_fitness)]_vars

\* C3 witness: a run with elitism whose second generation records a strictly
\* better best fitness than its first.
C3_ImprovedWithElitism ==
    /\ mode = "game"
    /\ elitism_count >= 1
    /\ Len(generation_history) >= 2
    /\ FLt(generation_history[1].best_fitness, generation_history[2].best_fitness)

\* C4: the run reports solved, and end_tracking records success, only when
\* the best individual's value equals the secret number.
C4_SolvedOnlyOnSecret ==
    (mode = "game" /\ (solution_found \/ success = Some(TRUE)))
        => The(best_individual).value = secret_number

\* the generation step i of the run reported solved
StepSolved(i) == FLe(SolvedThreshold, generation_history[i].best_fitness)

\* the bookkeeping of run_game: at most MAX_GENERATIONS generation steps, one
\* history record per step; the loop goes on only while no step was solved
\* and the counter is below MAX_GENERATIONS, and it has stopped only at a
\* solved step or at MAX_GENERATIONS
BoundedRun ==
    mode = "game" =>
        /\ current_generation <= config.MAX_GENERATIONS
        /\ Len(generation_history) = current_generation
        /\ \A i \in 1 .. Len(generation_history) :
               /\ generation_history[i].generation = i
               /\ (i < Len(generation_history) => ~StepSolved(i))
        /\ (pc = "running" =>
               /\ current_generation < config.MAX_GENERATIONS
               /\ ~solution_found)
        /\ (pc # "running" =>
               /\ current_generation >= 1
               /\ (solution_found \/ current_generation = config.MAX_GENERATIONS)
               /\ (solution_found <=> StepSolved(current_generation)))

\* C5: run_game terminates after at most MAX_GENERATIONS generation steps:
\* every pass of its loop raises the generation counter by one, the counter
\* never exceeds MAX_GENERATIONS, and the loop stops at the first step that
\* reports solved, or at MAX_GENERATIONS.
C5_RunTerminates ==
    /\ []BoundedRun
    /\ [][(mode = "game" /\ pc = "running")
            => /\ current_generation' = current_generation + 1
               /\ current_generation' <= config.MAX_GENERATIONS
               /\ pc' = IF solution_found'
                           \/ current_generation' = config.MAX_GENERATIONS
                        THEN "finished" ELSE "running"]_vars

\* C5 witness: a run that stopped at a solved step, after more than one step
\* and before MAX_GENERATIONS.
C5_StoppedAtFirstSolved ==
    /\ mode = "game"
    /\ pc = "finished"
    /\ solution_found
    /\ current_generation >= 2
    /\ current_generation < config.MAX_GENERATIONS

\* C6: a finished run reports exactly one outcome: the maximum-generations
\* message is shown if and only if no generation step reported solved.
C6_ExactlyOneOutcome ==
    (mode = "game" /\ pc # "running")
        => (max_generations_shown <=> ~solution_found)

\* the five functions of FitnessCalculator
CalculatorNames == {"linear", "inverse", "exponential", "combined", "hot_cold"}

\* C7: for a guess and a target inside [min_value, max_value], each of the
\* five fitness functions returns a value in [0, 100], and returns 100
\* exactly when the guess is the target.
C7_FitnessRange ==
    (/\ fit.called
     /\ fit.fn \in CalculatorNames
     /\ fit.min_value <= fit.guess /\ fit.guess <= fit.max_value
     /\ fit.min_value <= fit.secret /\ fit.secret <= fit.max_value)
    => /\ ~Raised(fit.result)
       /\ FLe(F(0), fit.result)
       /\ FLe(fit.result, F(100))
       /\ (FEq(fit.result, F(100)) <=> fit.guess = fit.secret)

\* C7 witness: inverse_distance one away from the target, the largest value
\* a wrong guess gets.
C7_NearestMiss ==
    /\ fit.called
    /\ fit.fn = "inverse"
    /\ fit.min_value <= fit.guess /\ fit.guess <= fit.max_value
    /\ fit.min_value <= fit.secret /\ fit.secret <= fit.max_value
    /\ Abs(fit.guess - fit.secret) = 1
    /\ fit.result = F(99)

\* C8: linear_distance and Individual.calculate_fitness both return 100 on
\* the target and max(0, R - d) / R * 100 off it, with R = max - min + 1 and
\* d = |guess - target|; they agree on every guess an Individual can hold;
\* range 1..100, target 50, guess 40 gives 90.
C8_LinearFormula ==
    (fit.called /\ fit.fn \in {"linear", "calculate_fitness"}) =>
        LET held == IF fit.fn = "calculate_fitness"
                    THEN Clamp(fit.guess, fit.min_value, fit.max_value)
                    ELSE fit.guess
            R == fit.max_value - fit.min_value + 1
            d == Abs(held - fit.secret)
        IN  /\ fit.result = (IF d = 0 THEN F(100)
                             ELSE Rat(Max2(0, R - d) * 100, R))
            /\ (fit.min_value <= held /\ held <= fit.max_value)
               => linear_distance(held, fit.secret, fit.min_value, fit.max_value)
                    = calculate_fitness(
                        Individual(held, fit.min_value, fit.max_value),
                        fit.secret).fitness
            /\ (/\ fit.min_value = 1 /\ fit.max_value = 100
                /\ fit.secret = 50 /\ fit.guess = 40)
               => fit.result = F(90)

\* C8 witness: the example, computed by Individual.calculate_fitness.
C8_ExampleNinety ==
    /\ fit.called
    /\ fit.fn = "calculate_fitness"
    /\ fit.min_value = 1 /\ fit.max_value = 100
    /\ fit.secret = 50 /\ fit.guess = 40
    /\ fit.result = F(90)

\* C9: every fitness function returns a number, and raises nothing, for any
\* integer guess and target and any min_value <= max_value.
C9_FitnessTotal == fit.called => ~Raised(fit.result)

\* a breeding of an evaluated population, as one call of the Population
BreedsEvaluated == mode = "api" /\ phase = "Evaluated" /\ phase' = "Bred"

\* C10, as amended: create_next_generation on an evaluated population puts
\* the top elitism_count individuals, value and fitness unchanged and in
\* order, at the front of the new generation; every other entry is bred: a
\* fresh crossover child, or a copy of a member of the prior generation that
\* may have been mutated and still carries that member's fitness.
C10_ElitesLeadNewGeneration ==
    [][BreedsEvaluated =>
         /\ Len(individuals') = population_size
         /\ \A i \in 1 .. elitism_count : individuals'[i] = individuals[i]
         /\ \A j \in (elitism_count + 1) .. population_size :
               \/ individuals'[j].fitness = F(0)
               \/ \E k \in 1 .. Len(individuals) :
                     individuals'[j].fitness = individuals[k].fitness]_vars

\* C10 witness: a bred generation led by the elite, with an offspring of
\* another value behind it.
C10_EliteAndOffspring ==
    /\ mode = "api"
    /\ phase = "Bred"
    /\ elitism_count >= 1
    /\ best_individual # None
    /\ individuals[1] = The(best_individual)
    /\ FLt(F(0), individuals[1].fitness)
    /\ \E j \in (elitism_count + 1) .. Len(individuals) :
          individuals[j].value # individuals[1].value

\* C10 as stated: the new generation holds exactly elitism_count individuals
\* identical in value and fitness to a top-elitism_count individual of the
\* prior generation.
C10_ExactlyEliteCountIdentical ==
    [][BreedsEvaluated =>
         Cardinality({j \in 1 .. Len(individuals') :
                        \E i \in 1 .. elitism_count :
                            individuals'[j] = individuals[i]})
           = elitism_count]_vars

\* the individuals of a population with their fitness against the target
Scored(inds, secret) ==
    [i \in 1 .. Len(inds) |-> calculate_fitness(inds[i], secret)]

\* the sequences a and b hold the same elements the same number of times
SameMembers(a, b) ==
    /\ Len(a) = Len(b)
    /\ \A i \in 1 .. Len(a) :
          Cardinality({j \in 1 .. Len(a) : a[j] = a[i]})
            = Cardinality({j \in 1 .. Len(b) : b[j] = a[i]})

\* C11: a generation step emits exactly one history record and one tracker
\* record, both describing the population as evaluated in this step (its
\* best guess, best fitness, average fitness and diversity), breeds the next
\* generation if and only if the step is not solved, and on a solved step
\* leaves the population as evaluated, sorted by fitness.
C11_StepRecordsEvaluated ==
    [][(mode = "game" /\ pc = "running") =>
         LET scored == Scored(individuals, secret_number)
             n == Len(scored)
             record == generation_history'[Len(generation_history')]
             tracked == tracker'[Len(tracker')]
         IN  /\ generation_history' = Append(generation_history, record)
             /\ tracker' = Append(tracker, tracked)
             /\ record.generation = current_generation'
             /\ tracked.generation = current_generation'
             /\ \A i \in 1 .. n : FLe(scored[i].fitness, record.best_fitness)
             /\ \E i \in 1 .. n : /\ scored[i].fitness = record.best_fitness
                                  /\ scored[i].value = record.best_guess
             /\ record.avg_fitness
                  = FDiv(FSum([i \in 1 .. n |-> scored[i].fitness]), F(n))
             /\ tracked.best_guess = Some(record.best_guess)
             /\ tracked.best_fitness = record.best_fitness
             /\ tracked.avg_fitness = record.avg_fitness
             /\ tracked.diversity
                  = Rat(Cardinality({scored[i].value : i \in 1 .. n}), n)
             /\ solution_found' = FLe(SolvedThreshold, record.best_fitness)
             /\ (phase' = "Bred") = ~solution_found'
             /\ solution_found' =>
                   /\ phase' = "Evaluated"
                   /\ SameMembers(individuals', scored)
                   /\ \A i \in 1 .. (n - 1) :
                         FLe(individuals'[i + 1].fitness, individuals'[i].fitness)
             /\ Len(individuals') = n]_vars

\* C11 witness: an unsolved step whose record names a best guess that the
\* bred population no longer holds.
C11_RecordOfEvaluatedGeneration ==
    /\ mode = "game"
    /\ phase = "Bred"
    /\ ~solution_found
    /\ Len(generation_history) >= 1
    /\ \A i \in 1 .. Len(individuals) :
          individuals[i].value
            # generation_history[Len(generation_history)].best_guess

\* the generation number, best guess, best fitness, average fitness and
\* diversity of each record
GenerationRecords(records) ==
    [i \in 1 .. Len(records) |->
        [generation |-> records[i].generation,
         best_guess |-> records[i].best_guess,
         best_fitness |-> records[i].best_fitness,
         avg_fitness |-> records[i].avg_fitness,
         diversity |-> records[i].diversity]]

C13_NamedFitnessUsed ==
    (mode = "api" /\ phase = "Evaluated") =>
        \A i \in 1 .. Len(individuals) :
            individuals[i].fitness
              = FitnessCall(config.FITNESS_METHOD, individuals[i].value,
                            secret_number, min_value, max_value, None)

\* C14: the configuration never holds an ELITISM_COUNT above
\* POPULATION_SIZE // 2, whatever is constructed, updated, assigned, given on
\* the command line or entered at the parameter prompt.
C14_ElitismClamped ==
    mode = "config" => config.ELITISM_COUNT <= config.POPULATION_SIZE \div 2

\* the individuals of the population a selection was made from
Members(population) == {population[i] : i \in 1 .. Len(population)}

\* C15: a tournament returns one member of the population, the fittest of
\* the k = min(tournament_size, population size) sampled without replacement
\* (Selection.tournament_selection: the first of the fittest in the order of
\* the sample); with tournament_size >= population size its fitness is the
\* largest in the population.
C15_TournamentReturnsFittest ==
    (mode = "selection" /\ sel.op \in {"Selection.tournament_selection",
                                       "Population._tournament_selection"}) =>
        LET population == sel.population
            n == Len(population)
            k == Min2(sel.argument, n)
            tournament == sel.tournament
        IN  /\ sel.raised = "none"
            /\ Len(sel.selected) = 1
            /\ sel.selected[1] \in Members(population)
            /\ sel.op = "Selection.tournament_selection" =>
                 /\ Len(tournament) = k
                 /\ \A i \in 1 .. k : tournament[i] \in 1 .. n
                 /\ \A i, j \in 1 .. k : i # j => tournament[i] # tournament[j]
                 /\ \E i \in 1 .. k :
                      /\ sel.selected[1] = population[tournament[i]]
                      /\ \A j \in 1 .. k :
                            FLe(population[tournament[j]].fitness,
                                sel.selected[1].fitness)
                      /\ \A j \in 1 .. (i - 1) :
                            FLt(population[tournament[j]].fitness,
                                sel.selected[1].fitness)
            /\ sel.op = "Population._tournament_selection" =>
                 \E S \in SUBSET (1 .. n) :
                    /\ Cardinality(S) = k
                    /\ \E i \in S : sel.selected[1] = population[i]
                    /\ \A j \in S : FLe(population[j].fitness,
                                        sel.selected[1].fitness)
            /\ sel.argument >= n =>
                 \A i \in 1 .. n : FLe(population[i].fitness,
                                       sel.selected[1].fitness)

\* C15 witness: a tournament as large as a population of unequal fitness has
\* returned its fittest member, and the fittest was not drawn first
C15_WholePopulationTournament ==
    /\ mode = "selection"
    /\ sel.op = "Selection.tournament_selection"
    /\ Len(sel.population) = SelSize
    /\ sel.argument >= SelSize
    /\ FLt(sel.population[sel.tournament[1]].fitness, sel.selected[1].fitness)

\* C15 witness: a tournament smaller than the population has returned the
\* fittest of its sample, which is not the fittest of the population
C15_SmallTournament ==
    /\ mode = "selection"
    /\ sel.op = "Population._tournament_selection"
    /\ sel.argument = 2
    /\ Len(sel.population) = SelSize
    /\ \E i \in 1 .. SelSize : FLt(sel.selected[1].fitness,
                                   sel.population[i].fitness)

\* the running sum of fitness up to position i
CumulativeFitness(population, i) == FSum(SubSeq(Fitnesses(population), 1, i))

\* C16: the roulette raises nothing and returns one member of the
\* population; with total fitness 0 every member can be the one returned,
\* and with total fitness > 0 the pointer lies in [0, total] and the
\* individual returned is the first whose cumulative fitness is >= the pointer.
C16_RouletteReturnsMember ==
    /\ (mode = "selection" /\ sel.op \in {"Selection.roulette_wheel_selection",
                                          "Population._roulette_wheel_selection"}) =>
        LET population == sel.population
            total == CumulativeFitness(population, Len(population))
        IN  /\ sel.raised = "none"
            /\ Len(sel.selected) = 1
            /\ sel.selected[1] \in Members(population)
            /\ FLt(F(0), total) =>
                 /\ Len(sel.pointers) = 1
                 /\ FLe(F(0), sel.pointers[1])
                 /\ FLe(sel.pointers[1], total)
                 /\ \E i \in 1 .. Len(population) :
                      /\ sel.selected[1] = population[i]
                      /\ FLe(sel.pointers[1], CumulativeFitness(population, i))
                      /\ \A j \in 1 .. (i - 1) :
                            FLt(CumulativeFitness(population, j), sel.pointers[1])
    /\ (mode = "selection" /\ sel.op = "none"
        /\ \A i \in 1 .. Len(sel.population) :
              FEq(sel.population[i].fitness, F(0))) =>
        \A i \in 1 .. Len(sel.population) :
            \A op \in {"Selection.roulette_wheel_selection",
                        "Population._roulette_wheel_selection"} :
               \E r \in SelectionCall(op, sel.population, 0) :
                  r.raised = "none" /\ r.selected = <<sel.population[i]>>

\* C16 witness: with every fitness 0 the roulette has returned the last of
\* several members
C16_ZeroFitnessLastReturned ==
    /\ mode = "selection"
    /\ sel.op = "Selection.roulette_wheel_selection"
    /\ Len(sel.population) = SelSize
    /\ \A i \in 1 .. SelSize : FEq(sel.population[i].fitness, F(0))
    /\ sel.population[1].value # sel.population[SelSize].value
    /\ sel.selected = <<sel.population[SelSize]>>

\* C16 witness: with positive total fitness the roulette has passed over the
\* first individual and returned a later one
C16_PointerPastFirst ==
    /\ mode = "selection"
    /\ sel.op = "Population._roulette_wheel_selection"
    /\ Len(sel.pointers) = 1
    /\ FLt(sel.population[1].fitness, sel.pointers[1])
    /\ sel.selected[1] # sel.population[1]

\* C18: stochastic universal sampling with num_selections = n >= 1 returns
\* exactly n individuals, each a member of the population, whether the total
\* fitness is 0 or positive.
C18_SamplingReturnsN ==
    (mode = "selection"
     /\ sel.op = "Selection.stochastic_universal_sampling") =>
        /\ Len(sel.selected) = sel.argument
        /\ \A k \in 1 .. Len(sel.selected) :
              sel.selected[k] \in Members(sel.population)

\* C17: average-with-variation crossover (Crossover.average_crossover and
\* Individual.crossover) of two parents with the same value v returns
\* child1 = clamp(v + a) and child2 = clamp(v - b) with a, b in 1..3; for
\* v = 42 in 1..100 both children are in {39, 40, 41, 43, 44, 45}, neither is
\* 42, and the two differ.
C17_IdenticalParentsVaried ==
    (/\ mode = "lab"
     /\ lab.op \in {"average", "Individual.crossover"}
     /\ lab.parents[1].value = lab.parents[2].value) =>
        LET v == lab.parents[1].value
            lo == lab.parents[1].min_value
            hi == lab.parents[1].max_value
        IN  /\ lab.raised = "none"
            /\ Len(lab.children) = 2
            /\ \E a \in 1 .. 3, b \in 1 .. 3 :
                  /\ lab.children[1].value = Max2(lo, Min2(v + a, hi))
                  /\ lab.children[2].value = Max2(lo, Min2(v - b, hi))
            /\ (v = 42 /\ lo = 1 /\ hi = 100) =>
                  /\ lab.children[1].value \in {39, 40, 41, 43, 44, 45}
                  /\ lab.children[2].value \in {39, 40, 41, 43, 44, 45}
                  /\ lab.children[1].value # 42
                  /\ lab.children[2].value # 42
                  /\ lab.children[1].value # lab.children[2].value

\* C17 witness: Crossover.average_crossover of two parents of value 42 in
\* 1..100 has returned the children 45 and 39
C17_FortyTwoVaried ==
    /\ mode = "lab"
    /\ lab.op = "average"
    /\ lab.parents[1].value = 42
    /\ lab.parents[2].value = 42
    /\ lab.parents[1].max_value = 100
    /\ lab.children[1].value = 45
    /\ lab.children[2].value = 39

\* C17 witness: Individual.crossover of two parents at the upper bound has
\* returned a first child clamped back onto the parents' value
C17_ClampedOntoParent ==
    /\ mode = "lab"
    /\ lab.op = "Individual.crossover"
    /\ lab.parents[1].value = 100
    /\ lab.parents[2].value = 100
    /\ lab.children[1].value = 100
    /\ lab.children[2].value = 97

\* C19: no crossover operator and no mutation operator raises, for every
\* valid range 1 <= min_value <= max_value and in-bounds parents, small
\* ranges (max_value <= 3, min_value = max_value) included.
C19_OperatorsNeverRaise ==
    (mode = "lab" /\ lab.op # "none") => lab.raised \in {"none", "hang"}

\* C20: a gaussian mutation returns: when the probability gate passes, the
\* resample loop ends with a non-zero change, also with the default sigma on
\* a range of 0 or a few numbers.
C20_GaussianTerminates ==
    (mode = "lab" /\ lab.op = "gaussian") => lab.raised # "hang"

\* the mutation operators that return at once when their draw is above the
\* probability
GatedMutations == {"Individual.mutate", "random", "boundary", "gaussian"}

\* C21: a gated mutation changes the individual only when its draw is below
\* the probability: called with probability 0 it leaves the value as it was,
\* whatever the draw, 0 included.
C21_ZeroProbabilityUnchanged ==
    (mode = "lab" /\ lab.call = "mutation" /\ lab.op \in GatedMutations
     /\ FEq(lab.probability, F(0))) =>
        lab.children[1].value = lab.given[1].value

\* the range a random mutation draws its change from
RangeUsed(given_range, lo, hi) ==
    IF given_range = None THEN Max2(1, (hi - lo) \div 10) ELSE The(given_range)

\* C22: a random mutation (Individual.mutate, Mutation.random_mutation, also
\* through adaptive mutation) returns, with a range of at least 1; it leaves
\* the old value or clamp(old + d) for a d # 0 with |d| <= mutation_range, and
\* when the gate passes on every draw (probability 1) it leaves clamp(old + d).
C22_NonZeroChangeWithinRange ==
    (mode = "lab" /\ lab.call = "mutation"
     /\ lab.op \in {"Individual.mutate", "random", "adaptive"}) =>
        LET old == lab.given[1]
            range == RangeUsed(lab.mutation_range, old.min_value, old.max_value)
            changed == {Max2(old.min_value, Min2(old.value + d, old.max_value)) :
                           d \in ((-range) .. range) \ {0}}
        IN  /\ lab.raised = "none"
            /\ range >= 1
            /\ lab.children[1].value \in changed \cup {old.value}
            /\ FEq(lab.probability, F(1)) => lab.children[1].value \in changed
            /\ lab.children[1].min_value = old.min_value
            /\ lab.children[1].max_value = old.max_value

\* C22 witness: Individual.mutate with probability 1 has moved a value in the
\* middle of 1..100 by the whole of Population's range, 9
C22_MovedByWholeRange ==
    /\ mode = "lab"
    /\ lab.op = "Individual.mutate"
    /\ FEq(lab.probability, F(1))
    /\ lab.given[1].value = 42
    /\ lab.mutation_range = Some(9)
    /\ lab.children[1].value = 33

\* C22 witness: a random mutation at the upper bound with probability 1 has
\* drawn a change upwards and been clamped back onto the old value
C22_ClampedBack ==
    /\ mode = "lab"
    /\ lab.op = "random"
    /\ FEq(lab.probability, F(1))
    /\ lab.given[1].value = lab.given[1].max_value
    /\ lab.given[1].min_value < lab.given[1].max_value
    /\ lab.children[1].value = lab.given[1].value

\* C23: a crossover (Individual.crossover or any Crossover operator) leaves
\* both parents as they were given, in value, fitness and bounds, and the
\* two children it returns are new objects, neither of them a parent, with
\* the parents' min_value and max_value.
C23_ParentsUntouched ==
    (mode = "lab" /\ lab.call = "crossover") =>
        /\ lab.parents = lab.given
        /\ lab.raised = "none" =>
             /\ Len(lab.children) = 2
             /\ Len(lab.returned) = 2
             /\ lab.returned[1] \notin {1, 2}
             /\ lab.returned[2] \notin {1, 2}
             /\ lab.returned[1] # lab.returned[2]
             /\ \A i \in 1 .. 2 :
                   /\ lab.children[i].min_value = lab.given[1].min_value
                   /\ lab.children[i].max_value = lab.given[1].max_value
                   /\ lab.given[2].min_value = lab.given[1].min_value
                   /\ lab.given[2].max_value = lab.given[1].max_value

\* C23 witness: a crossover of two evaluated parents has returned children
\* that hold other values than their parents, and the parents kept their
\* values and their fitness
C23_EvaluatedParentsKept ==
    /\ mode = "lab"
    /\ lab.call = "crossover"
    /\ lab.op = "arithmetic"
    /\ lab.raised = "none"
    /\ FLt(F(0), lab.parents[1].fitness)
    /\ lab.parents[1].value # lab.parents[2].value
    /\ lab.children[1].value \notin {lab.parents[1].value, lab.parents[2].value}
    /\ lab.parents[1] = lab.given[1]

\* C24: create_next_generation leaves best_individual and generation_stats
\* as they are, so the best individual an evaluation reported keeps its
\* value and fitness through the breeding that follows; and a pass of the
\* breeding loop changes neither parent: what it mutates are the new objects
\* it got from the crossover or from clone().
C24_BreedingKeepsBestAndParents ==
    /\ [](mode = "lab" /\ lab.call = "breeding" =>
            /\ lab.parents = lab.given
            /\ lab.returned[1] \notin {1, 2}
            /\ lab.returned[2] \notin {1, 2}
            /\ lab.returned[1] # lab.returned[2])
    /\ [][(mode = "api" /\ phase' = "Bred") =>
            /\ best_individual' = best_individual
            /\ generation_stats' = generation_stats]_vars

\* C24 witness: after a breeding the population holds nobody with the value
\* of the best individual reported, which is still reported
C24_BestOutlivesItsGeneration ==
    /\ mode = "api"
    /\ phase = "Bred"
    /\ best_individual # None
    /\ \A i \in 1 .. Len(individuals) :
          individuals[i].value # The(best_individual).value
    /\ generation_stats.best_guess = Some(The(best_individual).value)

\* C24 witness: a pass of the breeding loop without crossover has mutated the
\* clone of the first parent, and the parent holds its value
C24_CloneMutated ==
    /\ mode = "lab"
    /\ lab.call = "breeding"
    /\ lab.given[1].value # lab.given[2].value
    /\ lab.children[2] = lab.given[2]
    /\ lab.children[1].value \notin {lab.given[1].value, lab.given[2].value}
    /\ lab.children[1].fitness = lab.given[1].fitness
    /\ FLt(F(0), lab.given[1].fitness)
    /\ lab.parents[1] = lab.given[1]

C26_EliteClones ==
    (mode = "selection" /\ sel.op = "Selection.elitism_selection") =>
        LET len == Len(sel.given)
            k == Min2(sel.argument, len)
            before(i, j) ==
                \/ FLt(sel.given[j].fitness, sel.given[i].fitness)
                \/ (FEq(sel.given[i].fitness, sel.given[j].fitness) /\ i < j)
        IN  /\ sel.raised = "none"
            /\ Len(sel.selected) = k
            /\ Len(sel.returned) = k
            /\ sel.population = sel.given
            /\ \A i \in 1 .. k : sel.returned[i] \notin 1 .. len
            /\ \A i, j \in 1 .. k : i # j => sel.returned[i] # sel.returned[j]
            /\ \E at \in [1 .. k -> 1 .. len] :
                  /\ \A i \in 1 .. k : sel.selected[i] = sel.given[at[i]]
                  /\ \A i, j \in 1 .. k : i < j => before(at[i], at[j])
                  /\ \A i \in 1 .. k :
                        \A m \in (1 .. len) \ {at[j] : j \in 1 .. k} :
                            before(at[i], m)

\* C26 witness: two clones taken from three individuals, the fittest of
\* which stands last and the other two are equally fit
C26_TopTwoOfThree ==
    /\ mode = "selection"
    /\ sel.op = "Selection.elitism_selection"
    /\ sel.argument = 2
    /\ Len(sel.given) = 3
    /\ FLt(sel.given[1].fitness, sel.given[3].fitness)
    /\ FEq(sel.given[1].fitness, sel.given[2].fitness)
    /\ sel.given[1].value # sel.given[2].value
    /\ sel.selected = <<sel.given[3], sel.given[1]>>

\* C27: adaptive crossover is the binary single-point crossover when
\* diff < 0.05 * R, the binary two-point crossover when
\* 0.05 * R <= diff < 0.20 * R and the average crossover otherwise, with
\* diff = |v1 - v2| and R = max_value - min_value; with R = 0 it is the
\* average crossover.  What the call leaves is what that one operator can
\* leave.
C27_AdaptiveDispatch ==
    (mode = "lab" /\ lab.call = "crossover" /\ lab.op = "adaptive") =>
        LET diff == IF lab.given[1].value >= lab.given[2].value
                    THEN lab.given[1].value - lab.given[2].value
                    ELSE lab.given[2].value - lab.given[1].value
            R == lab.given[1].max_value - lab.given[1].min_value
            chosen == IF 100 * diff < 5 * R THEN "binary"
                      ELSE IF 100 * diff < 20 * R THEN "binary_two_point"
                      ELSE "average"
        IN  /\ [raised |-> lab.raised, children |-> lab.children]
                  \in CrossoverCall(chosen, lab.given[1], lab.given[2])
            /\ R = 0 => (chosen = "average" /\ lab.raised = "none")

\* C27 witness: on a range of one number adaptive crossover has returned
\* two children, where the binary crossover raises
C27_ZeroRangeAveraged ==
    /\ mode = "lab"
    /\ lab.call = "crossover"
    /\ lab.op = "adaptive"
    /\ lab.given[1].min_value = lab.given[1].max_value
    /\ lab.raised = "none"
    /\ Len(lab.children) = 2

\* C27 witness: parents 42 and 50 in 1..100 (0.05 R <= 8 < 0.20 R) crossed at
\* two points: bits 4 and 5 of 0101010 and 0110010 exchanged
C27_TwoPointBranch ==
    /\ mode = "lab"
    /\ lab.call = "crossover"
    /\ lab.op = "adaptive"
    /\ lab.given[1].value = 42
    /\ lab.given[2].value = 50
    /\ lab.children[1].value = 50
    /\ lab.children[2].value = 42

\* C27 witness: parents 1 and 100 in 1..100 (0.20 R <= 99) averaged
C27_AverageBranch ==
    /\ mode = "lab"
    /\ lab.call = "crossover"
    /\ lab.op = "adaptive"
    /\ lab.given[1].value = 1
    /\ lab.given[2].value = 100
    /\ lab.children[1].value = 51
    /\ lab.children[2].value = 49

\* C28: in one pass of the breeding loop the second parent is selected again
\* only while both parents hold the same value and at most 5 times, so at
\* most 7 tournament selections are made; the pass goes on with parents of
\* the same value only after 5 re-selections, and the selection ends for
\* every population, one of equal values included.
C28_ReselectionBounded ==
    /\ (mode = "selection" /\ sel.op = "Population.create_next_generation") =>
          LET parent1 == sel.selected[1]
              picks == Tail(sel.selected)
              parent2 == picks[Len(picks)]
              T == _tournament_selection(sel.population, 3)
          IN  /\ sel.attempts \in 0 .. 5
              /\ Len(picks) = 1 + sel.attempts
              /\ Len(sel.selected) <= 7
              /\ \A i \in 1 .. sel.attempts : picks[i].value = parent1.value
              /\ parent2.value = parent1.value => sel.attempts = 5
              /\ <<parent2, sel.attempts>> \in ReselectParent2(T, parent1, T, 0)
    /\ (mode = "selection" /\ sel.op = "none") =>
          SelectParents(sel.population) # {}

\* C28 witness: from a population of three individuals of one value the
\* parents are kept after 5 re-selections, 7 selections in all
C28_EqualValuesEnd ==
    /\ mode = "selection"
    /\ sel.op = "Population.create_next_generation"
    /\ Len(sel.population) = 3
    /\ \A i \in 1 .. 3 : sel.population[i].value = sel.population[1].value
    /\ sel.attempts = 5
    /\ Len(sel.selected) = 7
    /\ sel.selected[7].value = sel.selected[1].value

\* C28 witness: a second parent of another value found at the third
\* re-selection
C28_FoundOnThirdAttempt ==
    /\ mode = "selection"
    /\ sel.op = "Population.create_next_generation"
    /\ sel.attempts = 3
    /\ sel.selected[5].value # sel.selected[1].value

\* C29: Individual.crossover on two parents of different values returns two
\* children of different values, also when a sampled value is clamped at
\* min_value or max_value.
C29_ChildrenDiffer ==
    (/\ mode = "lab"
     /\ lab.call = "crossover"
     /\ lab.op = "Individual.crossover"
     /\ lab.raised = "none"
     /\ lab.given[1].value # lab.given[2].value) =>
        lab.children[1].value # lab.children[2].value

\* C30: for a fitness in [0, max_fitness] and a generation >= 0 adaptive
\* mutation computes a mutation probability in [0.1, 0.9], not larger at a
\* larger fitness and not smaller at a later generation, and a mutation range
\* >= 1, not larger at a larger fitness; what it leaves is what random
\* mutation with that range and that probability can leave.
C30_AdaptiveParameters ==
    (mode = "lab" /\ lab.call = "mutation" /\ lab.op = "adaptive") =>
        LET P == lab.probability
            R == The(lab.mutation_range)
            individual == lab.given[1]
        IN  /\ FLe(Rat(1, 10), P)
            /\ FLe(P, Rat(9, 10))
            /\ R >= 1
            /\ \A fitness \in {F(10 * k) : k \in 0 .. 10} :
                  FLe(lab.fitness, fitness) =>
                     /\ FLe(adaptive_probability(fitness, F(100),
                                                 lab.generation), P)
                     /\ adaptive_range(individual, fitness, F(100)) <= R
            /\ \A generation \in {0, 1, 299, 300, 301, 1000, 2000} :
                  lab.generation <= generation =>
                     FLe(P, adaptive_probability(lab.fitness, F(100),
                                                 generation))
            /\ \E m \in random_mutation(clone(individual), Some(R), P) :
                  m.individual = lab.children[1] /\ m.raised = lab.raised

\* C30 witness: at fitness 0 and generation 1000 an individual of 42 in
\* 1..100 mutated with probability 0.8 by the whole range 19
C30_UnfitMovedFar ==
    /\ mode = "lab"
    /\ lab.call = "mutation"
    /\ lab.op = "adaptive"
    /\ FEq(lab.fitness, F(0))
    /\ lab.generation = 1000
    /\ FEq(lab.probability, Rat(8, 10))
    /\ lab.mutation_range = Some(19)
    /\ lab.given[1].value = 42
    /\ lab.children[1].value = 61

\* C30 witness: at fitness 100 and generation 0 the same individual mutated
\* with probability 0.1 by the whole range 4
C30_FitMovedLittle ==
    /\ mode = "lab"
    /\ lab.call = "mutation"
    /\ lab.op = "adaptive"
    /\ FEq(lab.fitness, F(100))
    /\ lab.generation = 0
    /\ FEq(lab.probability, Rat(1, 10))
    /\ lab.mutation_range = Some(4)
    /\ lab.given[1].value = 42
    /\ lab.children[1].value = 38

====
